---------------------------- MODULE Spec2Model ----------------------------
(***************************************************************************)
(* HaikuDepot: the package Model (src/apps/haikudepot/model/Model.cpp) and *)
(* the JSON-RPC client (src/apps/haikudepot/server/WebAppInterface.cpp).   *)
(*                                                                         *)
(* The specifications share the module's variables and its Init:           *)
(*   SpecState    - sequences of Model::SetPackageState calls              *)
(*   SpecThreads  - threads running Model::PopulatePackage concurrently    *)
(*   SpecPopulate - one caller of Model::PopulatePackage on a package with *)
(*                  several screenshots                                    *)
(*   SpecLock     - threads running the other Model operations             *)
(*   SpecDepots   - AddDepot, SyncDepot, ReplaceDepotByUrl and Clear calls *)
(*   SpecFilter   - the filter setters and Model::CreatePackageList        *)
(*   SpecSend     - calls of WebAppInterface::_SendJsonRequest             *)
(*   SpecIds      - threads building JSON-RPC envelopes                    *)
(*   SpecShot     - calls of Model::_PopulatePackageScreenshot             *)
(*   SpecSearch   - SearchTermsFilter built and asked                      *)
(*   SpecRepopulate - PopulatePackage calls with AddDepot and Clear        *)
(*   SpecClear    - Clear among SetPackageState, PopulatePackage, setters  *)
(*   SpecAuth     - requests with stored and with given credentials        *)
(*   SpecNull     - the filters called on a reference to no package        *)
(*   SpecUnpack   - the unpacking of user-ratings responses                *)
(*   SpecChangelog - the request body of WebAppInterface::GetChangelog     *)
(***************************************************************************)
EXTENDS Integers, Sequences, FiniteSets, TLC

(***************************************************************************)
(* Bounds of the model.                                                    *)
(***************************************************************************)
NumPackages == 3

MaxRepeat == 2

NumThreads == 2

NumPopulatable == 1

NumShots == 1

MaxRequestSize == 2

MaxDepots == 2

MaxOps == 3

MaxEnvelopes == 3

NumInstances == 2

MaxBitmaps == 2

MaxSearchLen == 3

MaxItems == 3

MaxNameLen == 2

NumGalleryShots == 2

Packages == 1..NumPackages

Threads == 1..NumThreads

\* The packages the threads of SpecThreads populate.
PopPackages == 1..NumPopulatable

\* A package with NumGalleryShots screenshots, populated by one caller in
\* SpecPopulate.
GalleryPackage == NumPopulatable + 1

DataPackages == PopPackages \cup {GalleryPackage}

(***************************************************************************)
(* PackageState.  OTHER stands for every enumerator that the switch of     *)
(* Model::SetPackageState sends to its default label.                      *)
(***************************************************************************)
PackageStates == {"NONE", "INSTALLED", "ACTIVATED", "UNINSTALLED", "OTHER"}

VARIABLES
    fInstalledPackages,     \* Model::fInstalledPackages, a PackageList
    fActivatedPackages,     \* Model::fActivatedPackages
    fUninstalledPackages,   \* Model::fUninstalledPackages
    pkgState,               \* PackageInfo::fState of every package
    lastSet,                \* history: the last state set for a package
    lastCall,               \* history: arguments of the last SetPackageState
    repeats,                \* history: how often lastCall was repeated in a row
    fLock,                  \* Model::fLock, a recursive BLocker: owner and depth
    fPopulatedPackages,     \* Model::fPopulatedPackages, a PackageList
    changelog,              \* PackageInfo::fChangelog of every package
    userRatings,            \* PackageInfo::fUserRatings of every package
    screenshots,            \* PackageInfo::fScreenshots of every package
    cache,                  \* age in seconds of every screenshot cache file
    pc,                     \* where each thread is in Model::PopulatePackage
    pkg,                    \* PopulatePackage's argument 'package'
    flags,                  \* PopulatePackage's argument 'flags'
    alreadyPopulated,       \* PopulatePackage's local 'alreadyPopulated'
    reply,                  \* the web-app's answer, between fetch and use
    shotIndex,              \* the loop variable i of the screenshot loop
    entered,                \* history: package unpopulated when call began
    done,                   \* history: sub-fetches this call has performed
    fetchLog,               \* history: the sub-fetches of the call on
                            \* GalleryPackage, each with how it ended
    rpc,                    \* the last _SendJsonRequest call: inputs and outcome
    fDepots,                \* Model::fDepots, a DepotList
    fCredentials,           \* WebAppInterface::fCredentials of the Model
    op,                     \* the Model operation each thread is inside of
    started,                \* how many of these operations have been called
    fRequestIndex,          \* WebAppInterface::fRequestIndex, a static int
    envelopes,              \* the JSON-RPC envelopes built so far, in order
    building,               \* the envelope each thread is building
    shotFile,               \* the cache file of one screenshot key
    shotBitmaps,            \* the bitmaps of the package that screenshot is of
    shot,                   \* the last _PopulatePackageScreenshot call
    searchString,           \* the string a SearchTermsFilter was built from
    fSearchTerms,           \* SearchTermsFilter::fSearchTerms of that filter
    accepted,               \* the last AcceptsPackage call on that filter
    fCategoryFilter,        \* Model::fCategoryFilter, a PackageFilterRef
    fDepotFilter,           \* Model::fDepotFilter, a BString
    fSearchTermsFilter,     \* Model::fSearchTermsFilter
    fIsFeaturedFilter,      \* Model::fIsFeaturedFilter
    fShowFeaturedPackages,  \* Model::fShowFeaturedPackages
    fShowAvailablePackages, \* Model::fShowAvailablePackages
    fShowInstalledPackages, \* Model::fShowInstalledPackages
    fShowSourcePackages,    \* Model::fShowSourcePackages
    fShowDevelopPackages,   \* Model::fShowDevelopPackages
    listing,                \* the last CreatePackageList call, if still current
    depotCall,              \* the last call that changed or synced fDepots
    unpacked,               \* the last unpacking of a user-ratings response
    sent                    \* the last request body GetChangelog has sent

indexVars == <<fInstalledPackages, fActivatedPackages, fUninstalledPackages,
               pkgState, lastSet, lastCall, repeats>>

dataVars == <<fPopulatedPackages, changelog, userRatings, screenshots, cache>>

threadVars == <<fLock, pc, pkg, flags, alreadyPopulated, reply, shotIndex,
                entered, done, fetchLog>>

lockVars == <<fDepots, fCredentials, op, started>>

idVars == <<fRequestIndex, envelopes, building>>

shotVars == <<shotFile, shotBitmaps, shot>>

searchVars == <<searchString, fSearchTerms, accepted>>

callVars == <<rpc, idVars, shotVars, searchVars>>

filterVars == <<fCategoryFilter, fDepotFilter, fSearchTermsFilter,
                fIsFeaturedFilter, fShowFeaturedPackages,
                fShowAvailablePackages, fShowInstalledPackages,
                fShowSourcePackages, fShowDevelopPackages, listing>>

depotVars == <<depotCall>>

parseVars == <<unpacked, sent>>

\* What the steps of the Model's operations leave alone.
restVars == <<callVars, filterVars, depotVars, parseVars>>

vars == <<indexVars, dataVars, threadVars, restVars, lockVars>>

(***************************************************************************)
(* List<> as the Model uses it: Contains, Add (at the end), Remove (the    *)
(* first occurrence).                                                      *)
(***************************************************************************)
Contains(list, item) == \E i \in DOMAIN list : list[i] = item

IndexOf(list, item) ==
    IF Contains(list, item)
    THEN CHOOSE i \in DOMAIN list :
            list[i] = item /\ \A j \in 1..(i - 1) : list[j] # item
    ELSE 0

Add(list, item) == Append(list, item)

Remove(list, item) ==
    LET k == IndexOf(list, item)
    IN  IF k = 0 THEN list
        ELSE [i \in 1..(Len(list) - 1) |-> IF i < k THEN list[i] ELSE list[i + 1]]

\* Mutant: the Contains() test before Add() is forgotten.
AddIfAbsent_NoCheck(list, item) == Add(list, item)

AddIfAbsent(list, item) ==
    IF ~Contains(list, item) THEN Add(list, item) ELSE list

CountOf(list, item) == Cardinality({i \in DOMAIN list : list[i] = item})

(***************************************************************************)
(* Model::SetPackageState: the three index lists after the switch.         *)
(***************************************************************************)
IndexLists(inst, act, uninst) ==
    [installed |-> inst, activated |-> act, uninstalled |-> uninst]

\* Mutant: case INSTALLED forgets fActivatedPackages.Remove(package).
SetPackageStateLists_KeepActivated(L, package, state) ==
    CASE state = "INSTALLED" ->
            IndexLists(AddIfAbsent(L.installed, package),
                       L.activated,
                       Remove(L.uninstalled, package))
      [] state = "ACTIVATED" ->
            IndexLists(AddIfAbsent(L.installed, package),
                       AddIfAbsent(L.activated, package),
                       Remove(L.uninstalled, package))
      [] state = "UNINSTALLED" ->
            IndexLists(Remove(L.installed, package),
                       Remove(L.activated, package),
                       AddIfAbsent(L.uninstalled, package))
      [] OTHER ->
            IndexLists(Remove(L.installed, package),
                       Remove(L.activated, package),
                       Remove(L.uninstalled, package))

\* Mutant: case NONE forgets fUninstalledPackages.Remove(package).
SetPackageStateLists_NoneKeepsUninstalled(L, package, state) ==
    CASE state = "INSTALLED" ->
            IndexLists(AddIfAbsent(L.installed, package),
                       Remove(L.activated, package),
                       Remove(L.uninstalled, package))
      [] state = "ACTIVATED" ->
            IndexLists(AddIfAbsent(L.installed, package),
                       AddIfAbsent(L.activated, package),
                       Remove(L.uninstalled, package))
      [] state = "UNINSTALLED" ->
            IndexLists(Remove(L.installed, package),
                       Remove(L.activated, package),
                       AddIfAbsent(L.uninstalled, package))
      [] OTHER ->
            IndexLists(Remove(L.installed, package),
                       Remove(L.activated, package),
                       L.uninstalled)

SetPackageStateLists(L, package, state) ==
    CASE state = "INSTALLED" ->
            IndexLists(AddIfAbsent(L.installed, package),
                       Remove(L.activated, package),
                       Remove(L.uninstalled, package))
      [] state = "ACTIVATED" ->
            IndexLists(AddIfAbsent(L.installed, package),
                       AddIfAbsent(L.activated, package),
                       Remove(L.uninstalled, package))
      [] state = "UNINSTALLED" ->
            IndexLists(Remove(L.installed, package),
                       Remove(L.activated, package),
                       AddIfAbsent(L.uninstalled, package))
      [] OTHER ->
            IndexLists(Remove(L.installed, package),
                       Remove(L.activated, package),
                       Remove(L.uninstalled, package))

CurrentLists ==
    IndexLists(fInstalledPackages, fActivatedPackages, fUninstalledPackages)

NoCall == <<0, "NONE">>

SetPackageState(package, state) ==
    LET L == SetPackageStateLists(CurrentLists, package, state)
    IN  /\ lastCall = <<package, state>> => repeats < MaxRepeat
        /\ fInstalledPackages' = L.installed
        /\ fActivatedPackages' = L.activated
        /\ fUninstalledPackages' = L.uninstalled
        /\ pkgState' = [pkgState EXCEPT ![package] = state]
        /\ lastSet' = [lastSet EXCEPT ![package] = state]
        /\ lastCall' = <<package, state>>
        /\ repeats' = IF lastCall = <<package, state>> THEN repeats + 1 ELSE 0
        /\ UNCHANGED <<dataVars, threadVars, restVars, lockVars>>

InitIndex ==
    /\ fInstalledPackages = <<>>
    /\ fActivatedPackages = <<>>
    /\ fUninstalledPackages = <<>>
    /\ pkgState = [p \in Packages |-> "NONE"]
    /\ lastSet = [p \in Packages |-> "unset"]
    /\ lastCall = NoCall
    /\ repeats = 0

(***************************************************************************)
(* Model::fLock is a BLocker: recursive, owned by one thread at a time.    *)
(* BAutolock takes it in its constructor and releases it at the end of the *)
(* enclosing block.                                                        *)
(***************************************************************************)
NoThread == 0

LockFree == [owner |-> NoThread, count |-> 0]

CanLock(lock, thread) == lock.owner \in {NoThread, thread}

Locked(lock, thread) == [owner |-> thread, count |-> lock.count + 1]

\* Mutant: the BAutolock outlives its block, the lock is never given back.
Unlocked_Never(lock) == lock

Unlocked(lock) ==
    IF lock.count <= 1 THEN LockFree ELSE [lock EXCEPT !.count = @ - 1]

(***************************************************************************)
(* Model::PopulatePackage, one thread per call.  A thread's pc names the   *)
(* statement it executes next; "idle" and "returned" are outside the call. *)
(***************************************************************************)
PopulateFlags ==
    {"POPULATE_FORCE", "POPULATE_CHANGELOG", "POPULATE_USER_RATINGS",
     "POPULATE_SCREEN_SHOTS"}

\* The pc before each BAutolock, and the pc of the block it guards.
AfterLock ==
    [P_lock   |-> "P_check",    \* Model.cpp:611
     CL_lock  |-> "CL_name",    \* Model.cpp:772
     CL_lock2 |-> "CL_set",     \* Model.cpp:785
     UR_lock  |-> "UR_read",    \* Model.cpp:630
     UR_lock2 |-> "UR_unpack",  \* Model.cpp:649
     SS_lock  |-> "SS_copy",    \* Model.cpp:753
     SC_lock  |-> "SC_add",     \* Model.cpp:993
     SN_lock  |-> "SN_add"]     \* Model.cpp:1011

\* A call into WebAppInterface is in progress.
NetworkPcs == {"CL_fetch", "UR_fetch", "SN_fetch"}

\* Mutant: the three tests are alternatives, the first flag set wins.
PhaseAfter_FirstOnly(stage, fl) ==
    IF stage # "check" THEN "returned"
    ELSE IF "POPULATE_CHANGELOG" \in fl THEN "CL_lock"
    ELSE IF "POPULATE_USER_RATINGS" \in fl THEN "UR_lock"
    ELSE IF "POPULATE_SCREEN_SHOTS" \in fl THEN "SS_lock"
    ELSE "returned"

\* The next statement of PopulatePackage after a stage, by the flags.
PhaseAfter(stage, fl) ==
    IF stage = "check" /\ "POPULATE_CHANGELOG" \in fl
        THEN "CL_lock"
    ELSE IF stage \in {"check", "changelog"} /\ "POPULATE_USER_RATINGS" \in fl
        THEN "UR_lock"
    ELSE IF stage \in {"check", "changelog", "ratings"}
                /\ "POPULATE_SCREEN_SHOTS" \in fl
        THEN "SS_lock"
    ELSE "returned"

\* Mutant: the populated test ignores the package's presence in the list.
SkipsWork_Never(fl, already) == FALSE

\* Model.cpp:613, the early return.
SkipsWork(fl, already) == "POPULATE_FORCE" \notin fl /\ already

\* Mutant: every call that does its work adds the package.
MarkPopulated_Always(list, package, already) == Add(list, package)

\* Mutant: the package is never recorded as populated.
MarkPopulated_Forgets(list, package, already) == list

\* Model.cpp:615-616.
MarkPopulated(list, package, already) ==
    IF ~already THEN Add(list, package) ELSE list

\* The answers of WebAppInterface::GetChangelog that PopulatePackageChangelog
\* tells apart: a failed call, a JSON-RPC error, a result with no content,
\* a result with content.
ChangelogReplies == {"fail", "error", "empty", "log"}

\* The answers of RetreiveUserRatingsForPackageForDisplay: a failed call, a
\* reply without result.items, or one of two replies with items.
RatingsReplies == {"fail", "noitems", "A", "B"}

\* The ratings PopulatePackage adds for a reply with items.
RatingsOf(r) == IF r = "A" THEN <<"a1", "a2">> ELSE <<"b1">>

\* Mutant: the ratings of the reply are added to the ones the package has.
UnpackRatings_NoClear(previous, r) == previous \o RatingsOf(r)

\* Model.cpp:650-734: ClearUserRatings(), then AddUserRating for the items
\* of the reply.
UnpackRatings(previous, r) == RatingsOf(r)

\* PackageInfo::ScreenshotInfos(): the codes of a package's screenshots.
ShotCode(package, i) == <<package, i>>

ShotCodes == PopPackages \X (1..NumShots)

GalleryCodes == {GalleryPackage} \X (1..NumGalleryShots)

\* PackageInfo::ScreenshotInfos().CountItems().
ShotCount(package) ==
    IF package = GalleryPackage THEN NumGalleryShots ELSE NumShots

\* The log of the call on GalleryPackage gets a new entry.
Logged(t, fetch, outcome) ==
    IF pkg[t] = GalleryPackage
    THEN Append(fetchLog, [fetch |-> fetch, outcome |-> outcome])
    ELSE fetchLog

\* The fetch logged last has ended.
Ended(t, outcome) ==
    IF pkg[t] = GalleryPackage
    THEN [fetchLog EXCEPT ![Len(fetchLog)].outcome = outcome]
    ELSE fetchLog

\* Screenshot cache files: no file, or the age of the file in seconds.
NoFile == -1

FreshnessWindow == 3600

\* Mutant: an old file is used as well.
UseCache_AnyAge(age, fromCacheOnly) == age # NoFile

\* Model.cpp:986-989: the cached file is used.
UseCache(age, fromCacheOnly) ==
    age # NoFile /\ (fromCacheOnly \/ age < FreshnessWindow)

CallWith(t, packages, flagSets) ==
    /\ pc[t] = "idle"
    /\ \E package \in packages, fl \in flagSets :
        /\ pkg' = [pkg EXCEPT ![t] = package]
        /\ fetchLog' = IF package = GalleryPackage THEN <<>> ELSE fetchLog
        /\ flags' = [flags EXCEPT ![t] = fl]
        /\ entered' = [entered EXCEPT
                            ![t] = ~Contains(fPopulatedPackages, package)]
    /\ pc' = [pc EXCEPT ![t] = "P_lock"]
    /\ alreadyPopulated' = [alreadyPopulated EXCEPT ![t] = FALSE]
    /\ reply' = [reply EXCEPT ![t] = "none"]
    /\ shotIndex' = [shotIndex EXCEPT ![t] = 0]
    /\ done' = [done EXCEPT ![t] = {}]
    /\ UNCHANGED <<restVars, lockVars, indexVars, dataVars, fLock>>

\* PopulatePackage is called with any of the flags.
CallFor(t, packages) == CallWith(t, packages, SUBSET PopulateFlags)

\* A thread of SpecThreads calls PopulatePackage.
Call(t) == CallFor(t, PopPackages)

\* PopulatePackage(package, 0): no sub-fetch is asked for.
CallNoFetch(t) == CallWith(t, {GalleryPackage}, {{}})

\* The caller of SpecPopulate calls PopulatePackage.
CallGallery(t) == CallFor(t, {GalleryPackage})

\* BAutolock locker(&fLock): blocks until the lock can be taken.
Acquire(t) ==
    /\ pc[t] \in DOMAIN AfterLock
    /\ CanLock(fLock, t)
    /\ fLock' = Locked(fLock, t)
    /\ pc' = [pc EXCEPT ![t] = AfterLock[pc[t]]]
    /\ UNCHANGED <<fetchLog, restVars, lockVars, indexVars, dataVars, pkg, flags, alreadyPopulated, reply,
                   shotIndex, entered, done>>

\* Model.cpp:612-617.
P_Check(t) ==
    /\ pc[t] = "P_check"
    /\ LET already == Contains(fPopulatedPackages, pkg[t])
       IN  /\ alreadyPopulated' = [alreadyPopulated EXCEPT ![t] = already]
           /\ IF SkipsWork(flags[t], already)
              THEN /\ pc' = [pc EXCEPT ![t] = "returned"]
                   /\ UNCHANGED fPopulatedPackages
              ELSE /\ pc' = [pc EXCEPT ![t] = PhaseAfter("check", flags[t])]
                   /\ fPopulatedPackages' =
                        MarkPopulated(fPopulatedPackages, pkg[t], already)
    /\ fLock' = Unlocked(fLock)
    /\ UNCHANGED <<fetchLog, restVars, lockVars, indexVars, changelog, userRatings, screenshots, cache,
                   pkg, flags, reply, shotIndex, entered, done>>

\* Model.cpp:771-776: read the name under the lock, then call GetChangelog.
CL_Name(t) ==
    /\ pc[t] = "CL_name"
    /\ fLock' = Unlocked(fLock)
    /\ pc' = [pc EXCEPT ![t] = "CL_fetch"]
    /\ done' = [done EXCEPT ![t] = @ \cup {"changelog"}]
    /\ fetchLog' = Logged(t, <<"changelog", 0>>, "pending")
    /\ UNCHANGED <<restVars, lockVars, indexVars, dataVars, pkg, flags, alreadyPopulated, reply,
                   shotIndex, entered>>

\* Model.cpp:776-803: GetChangelog returns.
CL_Reply(t) ==
    /\ pc[t] = "CL_fetch"
    /\ \E r \in ChangelogReplies :
        IF r = "log"
        THEN /\ reply' = [reply EXCEPT ![t] = r]
             /\ pc' = [pc EXCEPT ![t] = "CL_lock2"]
        ELSE /\ pc' = [pc EXCEPT ![t] = PhaseAfter("changelog", flags[t])]
             /\ UNCHANGED reply
    /\ fetchLog' = Ended(t, IF pc'[t] = "CL_lock2" THEN "ok" ELSE "failed")
    /\ UNCHANGED <<restVars, lockVars, indexVars, dataVars, fLock, pkg, flags, alreadyPopulated,
                   shotIndex, entered, done>>

\* Model.cpp:785-786.
CL_Set(t) ==
    /\ pc[t] = "CL_set"
    /\ changelog' = [changelog EXCEPT ![pkg[t]] = reply[t]]
    /\ fLock' = Unlocked(fLock)
    /\ pc' = [pc EXCEPT ![t] = PhaseAfter("changelog", flags[t])]
    /\ reply' = [reply EXCEPT ![t] = "none"]
    /\ UNCHANGED <<fetchLog, restVars, lockVars, indexVars, fPopulatedPackages, userRatings, screenshots,
                   cache, pkg, flags, alreadyPopulated, shotIndex, entered,
                   done>>

\* Model.cpp:629-641: read name and repository code under the lock, then call
\* RetreiveUserRatingsForPackageForDisplay.
UR_Read(t) ==
    /\ pc[t] = "UR_read"
    /\ fLock' = Unlocked(fLock)
    /\ pc' = [pc EXCEPT ![t] = "UR_fetch"]
    /\ done' = [done EXCEPT ![t] = @ \cup {"ratings"}]
    /\ fetchLog' = Logged(t, <<"ratings", 0>>, "pending")
    /\ UNCHANGED <<restVars, lockVars, indexVars, dataVars, pkg, flags, alreadyPopulated, reply,
                   shotIndex, entered>>

\* Model.cpp:638-647, 742-747: the call returns.
UR_Reply(t) ==
    /\ pc[t] = "UR_fetch"
    /\ \E r \in RatingsReplies :
        IF r \in {"A", "B"}
        THEN /\ reply' = [reply EXCEPT ![t] = r]
             /\ pc' = [pc EXCEPT ![t] = "UR_lock2"]
        ELSE /\ pc' = [pc EXCEPT ![t] = PhaseAfter("ratings", flags[t])]
             /\ UNCHANGED reply
    /\ fetchLog' = Ended(t, IF pc'[t] = "UR_lock2" THEN "ok" ELSE "failed")
    /\ UNCHANGED <<restVars, lockVars, indexVars, dataVars, fLock, pkg, flags, alreadyPopulated,
                   shotIndex, entered, done>>

\* Model.cpp:649-741: ClearUserRatings and every AddUserRating, one lock hold.
UR_Unpack(t) ==
    /\ pc[t] = "UR_unpack"
    /\ userRatings' = [userRatings EXCEPT ![pkg[t]] =
                        UnpackRatings(@, reply[t])]
    /\ fLock' = Unlocked(fLock)
    /\ pc' = [pc EXCEPT ![t] = PhaseAfter("ratings", flags[t])]
    /\ reply' = [reply EXCEPT ![t] = "none"]
    /\ UNCHANGED <<fetchLog, restVars, lockVars, indexVars, fPopulatedPackages, changelog, screenshots,
                   cache, pkg, flags, alreadyPopulated, shotIndex, entered,
                   done>>

\* Model.cpp:752-756.
SS_Copy(t) ==
    /\ pc[t] = "SS_copy"
    /\ screenshots' = [screenshots EXCEPT ![pkg[t]] = <<>>]
    /\ fLock' = Unlocked(fLock)
    /\ shotIndex' = [shotIndex EXCEPT ![t] = 1]
    /\ done' = [done EXCEPT ![t] = @ \cup {"screenshots"}]
    /\ pc' = [pc EXCEPT ![t] = "SS_loop"]
    /\ UNCHANGED <<fetchLog, restVars, lockVars, indexVars, fPopulatedPackages, changelog, userRatings,
                   cache, pkg, flags, alreadyPopulated, reply, entered>>

\* Model.cpp:757-759 and 966-1000: the loop test, and for the next screenshot
\* the look at its cache file (fromCacheOnly is false in this call).
SS_Loop(t) ==
    /\ pc[t] = "SS_loop"
    /\ pc' = [pc EXCEPT ![t] =
                IF shotIndex[t] > ShotCount(pkg[t]) THEN "returned"
                ELSE IF UseCache(cache[ShotCode(pkg[t], shotIndex[t])], FALSE)
                    THEN "SC_lock"
                ELSE "SN_fetch"]
    /\ fetchLog' =
            IF pc'[t] = "returned" THEN fetchLog
            ELSE Logged(t, <<"screenshot", shotIndex[t]>>,
                        IF pc'[t] = "SC_lock" THEN "ok" ELSE "pending")
    /\ UNCHANGED <<restVars, lockVars, indexVars, dataVars, fLock, pkg, flags, alreadyPopulated,
                   reply, shotIndex, entered, done>>

\* Model.cpp:991-995: the bitmap of the cache file is added.
SC_Add(t) ==
    /\ pc[t] = "SC_add"
    /\ screenshots' = [screenshots EXCEPT ![pkg[t]] = Add(@, shotIndex[t])]
    /\ fLock' = Unlocked(fLock)
    /\ shotIndex' = [shotIndex EXCEPT ![t] = @ + 1]
    /\ pc' = [pc EXCEPT ![t] = "SS_loop"]
    /\ UNCHANGED <<fetchLog, restVars, lockVars, indexVars, fPopulatedPackages, changelog, userRatings,
                   cache, pkg, flags, alreadyPopulated, reply, entered, done>>

\* Model.cpp:1007-1009, 1018-1022: RetrieveScreenshot returns.
SN_Reply(t) ==
    /\ pc[t] = "SN_fetch"
    /\ \E ok \in BOOLEAN :
        IF ok
        THEN /\ pc' = [pc EXCEPT ![t] = "SN_lock"]
             /\ UNCHANGED shotIndex
        ELSE /\ pc' = [pc EXCEPT ![t] = "SS_loop"]
             /\ shotIndex' = [shotIndex EXCEPT ![t] = @ + 1]
    /\ fetchLog' = Ended(t, IF pc'[t] = "SN_lock" THEN "ok" ELSE "failed")
    /\ UNCHANGED <<restVars, lockVars, indexVars, dataVars, fLock, pkg, flags, alreadyPopulated,
                   reply, entered, done>>

\* Model.cpp:1010-1017: the fetched bitmap is added under the lock; after
\* Unlock() the cache file is rewritten if it can be opened for writing.
SN_Add(t) ==
    /\ pc[t] = "SN_add"
    /\ screenshots' = [screenshots EXCEPT ![pkg[t]] = Add(@, shotIndex[t])]
    /\ fLock' = Unlocked(fLock)
    /\ \E written \in BOOLEAN :
        cache' = IF written
                 THEN [cache EXCEPT ![ShotCode(pkg[t], shotIndex[t])] = 0]
                 ELSE cache
    /\ shotIndex' = [shotIndex EXCEPT ![t] = @ + 1]
    /\ pc' = [pc EXCEPT ![t] = "SS_loop"]
    /\ UNCHANGED <<fetchLog, restVars, lockVars, indexVars, fPopulatedPackages, changelog, userRatings,
                   pkg, flags, alreadyPopulated, reply, entered, done>>

\* PopulatePackage returns to its caller; its locals are gone.
Return(t) ==
    /\ pc[t] = "returned"
    /\ pc' = [pc EXCEPT ![t] = "idle"]
    /\ pkg' = [pkg EXCEPT ![t] = 1]
    /\ flags' = [flags EXCEPT ![t] = {}]
    /\ alreadyPopulated' = [alreadyPopulated EXCEPT ![t] = FALSE]
    /\ shotIndex' = [shotIndex EXCEPT ![t] = 0]
    /\ entered' = [entered EXCEPT ![t] = FALSE]
    /\ done' = [done EXCEPT ![t] = {}]
    /\ UNCHANGED <<fetchLog, restVars, lockVars, indexVars, dataVars, fLock, reply>>

\* Time passes: a screenshot cache file gets older than the freshness window.
Expire(code) ==
    /\ cache[code] \notin {NoFile, FreshnessWindow}
    /\ cache' = [cache EXCEPT ![code] = FreshnessWindow]
    /\ UNCHANGED <<restVars, lockVars, indexVars, threadVars, fPopulatedPackages, changelog,
                   userRatings, screenshots>>

(***************************************************************************)
(* WebAppInterface::_SendJsonRequest (WebAppInterface.cpp:916-1034).  The  *)
(* call blocks its thread until the HTTP exchange is over, so one call is  *)
(* one step.                                                               *)
(***************************************************************************)
B_HTTP_STATUS_OK == 200

B_HTTP_STATUS_PRECONDITION_FAILED == 412

\* What the HTTP exchange can end with; 0 is an exchange without a response.
HttpStatuses ==
    {0, B_HTTP_STATUS_OK, 204, 404, B_HTTP_STATUS_PRECONDITION_FAILED, 500}

\* Response bodies: a result envelope, an error envelope, text that is not
\* JSON.
Bodies == {"result", "error", "malformed"}

\* The caller's BMessage before the call: empty, or holding earlier fields.
ReplyDocuments == {<<>>, <<"earlier">>}

\* UserCredentials: nickname and clear-text password.
Credentials == {"", "nick"} \X {"", "secret"}

\* UserCredentials::IsValid(): both fields are non-empty.
IsValid(credentials) == credentials[1] # "" /\ credentials[2] # ""

\* Mutant: the network test comes before the test of the request size.
Preflight_NetworkFirst(requestDataSize, networkAvailable, clientTooOld) ==
    IF ~networkAvailable THEN "HD_NETWORK_INACCESSIBLE"
    ELSE IF requestDataSize = 0 THEN "B_ERROR"
    ELSE IF clientTooOld THEN "HD_CLIENT_TOO_OLD"
    ELSE "run"

\* WebAppInterface.cpp:921-943: the result code of the first failing test, or
\* "run" when the request is to be made.
Preflight(requestDataSize, networkAvailable, clientTooOld) ==
    IF requestDataSize = 0 THEN "B_ERROR"
    ELSE IF ~networkAvailable THEN "HD_NETWORK_INACCESSIBLE"
    ELSE IF clientTooOld THEN "HD_CLIENT_TOO_OLD"
    ELSE "run"

\* WebAppInterface.cpp:921-943: what becomes of the buffer requestData when
\* the call ends before the request; the empty-request return deletes
\* nothing.
PreflightBuffer(code) == IF code = "B_ERROR" THEN "kept" ELSE "deleted"

\* Mutant: every failure status is taken for an outdated client.
HttpSwitch_NotifyAlways(statusCode) ==
    IF statusCode = B_HTTP_STATUS_OK
    THEN [parse |-> TRUE, notify |-> 0, result |-> "B_OK"]
    ELSE [parse |-> FALSE, notify |-> 1, result |-> "HD_CLIENT_TOO_OLD"]

\* Mutant: the default label lacks its return and goes on to the parser.
HttpSwitch_FallThrough(statusCode) ==
    IF statusCode = B_HTTP_STATUS_PRECONDITION_FAILED
    THEN [parse |-> FALSE, notify |-> 1, result |-> "HD_CLIENT_TOO_OLD"]
    ELSE [parse |-> TRUE, notify |-> 0, result |-> "B_OK"]

\* WebAppInterface.cpp:1002-1014: the switch on the HTTP status.
HttpSwitch(statusCode) ==
    CASE statusCode = B_HTTP_STATUS_OK ->
            [parse |-> TRUE, notify |-> 0, result |-> "B_OK"]
      [] statusCode = B_HTTP_STATUS_PRECONDITION_FAILED ->
            [parse |-> FALSE, notify |-> 1, result |-> "HD_CLIENT_TOO_OLD"]
      [] OTHER ->
            [parse |-> FALSE, notify |-> 0, result |-> "B_ERROR"]

\* Mutant: an error envelope makes the call fail.
ParseStatus_ErrorFails(body) == IF body = "result" THEN "B_OK" ELSE "B_ERROR"

\* WebAppInterface.cpp:1024-1026: BJson::Parse writes the body's fields into
\* the reply; text that is not JSON ends the writer with B_BAD_DATA, after
\* it may have written some of the fields.
ParseStatus(body) == IF body = "malformed" THEN "B_BAD_DATA" ELSE "B_OK"

ParseInto(document, body, partial) ==
    IF body # "malformed" THEN Append(document, body)
    ELSE IF partial THEN Append(document, "partial")
    ELSE document

\* WebAppInterface.cpp:876-888: the code of the error envelope in a reply, 0
\* when the reply holds none (1 stands for whatever code the server gave).
ErrorCodeFromResponse(response) ==
    IF \E i \in DOMAIN response : response[i] = "error" THEN 1 ELSE 0

\* Mutant: valid credentials are sent with every request.
Authentication_Unflagged(needsAuthorization, credentials) ==
    IF IsValid(credentials) THEN credentials ELSE <<>>

\* WebAppInterface.cpp:977-982: the authentication added to the request.
Authentication(needsAuthorization, credentials) ==
    IF needsAuthorization /\ IsValid(credentials) THEN credentials ELSE <<>>

NoRpc == [called |-> FALSE]

\* status_t _SendJsonRequest(domain, credentials, requestData,
\*     requestDataSize, flags, reply)
SendJsonRequest(in, statusCode, body, partial) ==
    LET pre == Preflight(in.requestDataSize, in.networkAvailable,
                         in.clientTooOld)
        sw == HttpSwitch(statusCode)
    IN  IF pre # "run"
        THEN in @@ [ran |-> FALSE, statusCode |-> 0, body |-> "none",
                    authentication |-> <<>>, parsed |-> FALSE, notified |-> 0,
                    buffer |-> PreflightBuffer(pre),
                    reply |-> in.document, result |-> pre]
        ELSE in @@ [ran |-> TRUE, statusCode |-> statusCode,
                    body |-> IF sw.parse THEN body ELSE "none",
                    authentication |->
                        Authentication(in.needsAuthorization, in.credentials),
                    parsed |-> sw.parse, notified |-> sw.notify,
                    buffer |-> "adopted",
                    reply |-> IF sw.parse
                              THEN ParseInto(in.document, body, partial)
                              ELSE in.document,
                    result |-> IF sw.parse THEN ParseStatus(body)
                               ELSE sw.result]

\* One call, with its arguments (in) and what the environment answers.
DoSendJsonRequest ==
    /\ \E requestDataSize \in 0..MaxRequestSize,
          needsAuthorization \in BOOLEAN,
          credentials \in Credentials,
          document \in ReplyDocuments,
          networkAvailable \in BOOLEAN,
          clientTooOld \in BOOLEAN,
          statusCode \in HttpStatuses,
          body \in Bodies,
          partial \in BOOLEAN :
        rpc' = SendJsonRequest(
                    [called |-> TRUE,
                     requestDataSize |-> requestDataSize,
                     needsAuthorization |-> needsAuthorization,
                     credentials |-> credentials,
                     document |-> document,
                     networkAvailable |-> networkAvailable,
                     clientTooOld |-> clientTooOld],
                    statusCode, body, partial)
    /\ UNCHANGED <<indexVars, dataVars, threadVars, lockVars, filterVars,
                   depotVars, parseVars, idVars,
                   shotVars, searchVars>>

\* The arguments and the environment of the call recorded in r.
RpcInputs(r) ==
    [called |-> TRUE,
     requestDataSize |-> r.requestDataSize,
     needsAuthorization |-> r.needsAuthorization,
     credentials |-> r.credentials,
     document |-> r.document,
     networkAvailable |-> r.networkAvailable,
     clientTooOld |-> r.clientTooOld]

\* The credentials SpecAuth stores and passes: two users, and incomplete
\* pairs.
UserCredentials == {"", "nick", "other"} \X {"", "secret"}

\* WebAppInterface::SetAuthorization (WebAppInterface.cpp:301-305).
SetAuthorization ==
    /\ \E value \in UserCredentials : fCredentials' = value
    /\ UNCHANGED <<indexVars, dataVars, threadVars, fDepots, op, started,
                   filterVars, depotVars, parseVars, rpc, idVars, shotVars, searchVars>>

\* WebAppInterface.cpp:907-913: _SendJsonRequest without a credentials
\* argument sends with fCredentials.
DoSendJsonRequestStored ==
    /\ \E requestDataSize \in 0..MaxRequestSize,
          needsAuthorization \in BOOLEAN,
          networkAvailable \in BOOLEAN,
          clientTooOld \in BOOLEAN,
          statusCode \in HttpStatuses :
        rpc' = SendJsonRequest(
                    [called |-> TRUE,
                     caller |-> "_SendJsonRequest",
                     stored |-> fCredentials,
                     requestDataSize |-> requestDataSize,
                     needsAuthorization |-> needsAuthorization,
                     credentials |-> fCredentials,
                     document |-> <<>>,
                     networkAvailable |-> networkAvailable,
                     clientTooOld |-> clientTooOld],
                    statusCode, "result", FALSE)
    /\ UNCHANGED <<indexVars, dataVars, threadVars, lockVars, filterVars,
                   depotVars, parseVars, idVars, shotVars, searchVars>>

\* WebAppInterface::RetrieveUserDetailForCredentials (WebAppInterface.cpp:
\* 437-468), up to the return of _SendJsonRequest.  The envelope written is
\* never empty.  For invalid credentials debugger() is called first; the call
\* goes on when the debugger lets it.
DoRetrieveUserDetailForCredentials ==
    /\ \E credentials \in UserCredentials,
          networkAvailable \in BOOLEAN,
          clientTooOld \in BOOLEAN,
          statusCode \in HttpStatuses :
        rpc' = SendJsonRequest(
                    [called |-> TRUE,
                     caller |-> "RetrieveUserDetailForCredentials",
                     stored |-> fCredentials,
                     requestDataSize |-> MaxRequestSize,
                     needsAuthorization |-> TRUE,
                     credentials |-> credentials,
                     document |-> <<>>,
                     networkAvailable |-> networkAvailable,
                     clientTooOld |-> clientTooOld],
                    statusCode, "result", FALSE)
    /\ UNCHANGED <<indexVars, dataVars, threadVars, lockVars, filterVars,
                   depotVars, parseVars, idVars, shotVars, searchVars>>

InitSend == rpc = NoRpc

(***************************************************************************)
(* The other operations of the Model, run by threads that call them        *)
(* concurrently.  An operation that takes no lock is two steps, the thread *)
(* being inside the operation in between: it reads the member it works on  *)
(* when it begins and writes it when it ends.                              *)
(***************************************************************************)
DepotNames == {"A", "B"}

DepotUrls == {"u1", "u2"}

\* DepotInfo: name, URL, web-app repository code, packages.
DepotInfos ==
    [name : DepotNames, url : DepotUrls, code : {""},
     packages : {<<>>, <<1>>}]

Idle == [name |-> "idle"]

\* DepotInfo::SyncPackages: every incoming package replaces the package of
\* the same name, or is added when there is none.
SyncPackages(packages, incoming) ==
    LET merge[k \in 0..Len(incoming)] ==
            IF k = 0 THEN packages
            ELSE AddIfAbsent(merge[k - 1], incoming[k])
    IN  merge[Len(incoming)]

\* List::Replace(index, item): nothing happens for an index out of range.
Replace(list, index, item) ==
    IF index \in DOMAIN list THEN [list EXCEPT ![index] = item] ELSE list

\* Model.cpp:431-444 on a depot list: the list after the call.
SyncDepotList(depots, depot) ==
    IF \E i \in DOMAIN depots : depots[i].name = depot.name
    THEN LET i == CHOOSE k \in DOMAIN depots :
                    /\ depots[k].name = depot.name
                    /\ \A j \in (k + 1)..Len(depots) :
                            depots[j].name # depot.name
         IN  Replace(depots, i,
                     [depots[i] EXCEPT
                        !.packages = SyncPackages(@, depot.packages)])
    ELSE depots

\* DepotMapper::MapDepot as the server processes use it: the depot comes
\* back with its web-app repository code filled in.
MapDepot(depot) == [depot EXCEPT !.code = "code"]

\* The members of the Model a thread is reading or writing right now.
Accessing(t) ==
    CASE op[t].name \in {"AddDepot", "SyncDepot", "Clear"} -> {"fDepots"}
      [] op[t].name = "ReplaceDepotByUrl" /\ op[t].step # "lock" -> {"fDepots"}
      [] op[t].name = "SetPackageState" -> {"index lists"}
      [] op[t].name = "SetAuthorization" /\ op[t].step = "set" ->
            {"fCredentials"}
      [] OTHER -> {}

\* Model.cpp:407-410, entered.
AddDepotBegin(t) ==
    /\ op[t] = Idle
    /\ started < MaxOps
    /\ started' = started + 1
    /\ Len(fDepots) < MaxDepots
    /\ \E depot \in DepotInfos :
        op' = [op EXCEPT ![t] =
                [name |-> "AddDepot", depot |-> depot, seen |-> fDepots]]
    /\ UNCHANGED <<indexVars, dataVars, threadVars, restVars, fDepots,
                   fCredentials>>

\* Model.cpp:409: fDepots.Add(depot) done.
AddDepotEnd(t) ==
    /\ op[t].name = "AddDepot"
    /\ fDepots' = Add(op[t].seen, op[t].depot)
    /\ op' = [op EXCEPT ![t] = Idle]
    /\ UNCHANGED <<started, indexVars, dataVars, threadVars, restVars, fCredentials>>

\* Model.cpp:432-435, entered.
SyncDepotBegin(t) ==
    /\ op[t] = Idle
    /\ started < MaxOps
    /\ started' = started + 1
    /\ \E depot \in DepotInfos :
        op' = [op EXCEPT ![t] =
                [name |-> "SyncDepot", depot |-> depot, seen |-> fDepots]]
    /\ UNCHANGED <<indexVars, dataVars, threadVars, restVars, fDepots,
                   fCredentials>>

\* Model.cpp:436-443.
SyncDepotEnd(t) ==
    /\ op[t].name = "SyncDepot"
    /\ fDepots' = SyncDepotList(op[t].seen, op[t].depot)
    /\ op' = [op EXCEPT ![t] = Idle]
    /\ UNCHANGED <<started, indexVars, dataVars, threadVars, restVars, fCredentials>>

\* Model.cpp:448-451, entered.
ClearBegin(t) ==
    /\ op[t] = Idle
    /\ started < MaxOps
    /\ started' = started + 1
    /\ op' = [op EXCEPT ![t] = [name |-> "Clear"]]
    /\ UNCHANGED <<indexVars, dataVars, threadVars, restVars, fDepots,
                   fCredentials>>

\* Model.cpp:450: fDepots.Clear() done.
ClearEnd(t) ==
    /\ op[t].name = "Clear"
    /\ fDepots' = <<>>
    /\ op' = [op EXCEPT ![t] = Idle]
    /\ UNCHANGED <<started, indexVars, dataVars, threadVars, restVars, fCredentials>>

\* Model.cpp:1059-1062, entered.
ReplaceDepotByUrlBegin(t) ==
    /\ op[t] = Idle
    /\ started < MaxOps
    /\ started' = started + 1
    /\ \E url \in DepotUrls :
        op' = [op EXCEPT ![t] =
                [name |-> "ReplaceDepotByUrl", url |-> url, i |-> 1,
                 step |-> "read"]]
    /\ UNCHANGED <<indexVars, dataVars, threadVars, restVars, fDepots,
                   fCredentials>>

\* Model.cpp:1062-1065: the loop test, the copy of the depot and the
\* comparison of its URL, all without the lock.
ReplaceDepotByUrlRead(t) ==
    /\ op[t].name = "ReplaceDepotByUrl"
    /\ op[t].step = "read"
    /\ op' = [op EXCEPT ![t] =
                IF op[t].i > Len(fDepots) THEN Idle
                ELSE IF fDepots[op[t].i].url = op[t].url
                    THEN [name |-> "ReplaceDepotByUrl", url |-> op[t].url,
                          i |-> op[t].i, step |-> "lock",
                          depotInfo |-> fDepots[op[t].i]]
                ELSE [@ EXCEPT !.i = @ + 1]]
    /\ UNCHANGED <<started, indexVars, dataVars, threadVars, restVars, fDepots,
                   fCredentials>>

\* Model.cpp:1066.
ReplaceDepotByUrlLock(t) ==
    /\ op[t].name = "ReplaceDepotByUrl"
    /\ op[t].step = "lock"
    /\ CanLock(fLock, t)
    /\ fLock' = Locked(fLock, t)
    /\ op' = [op EXCEPT ![t].step = "replace"]
    /\ UNCHANGED <<started, indexVars, dataVars, restVars, fDepots, fCredentials, pc, pkg,
                   flags, alreadyPopulated, reply, shotIndex, entered, done,
                   fetchLog>>

\* Model.cpp:1067-1068.
ReplaceDepotByUrlReplace(t) ==
    /\ op[t].name = "ReplaceDepotByUrl"
    /\ op[t].step = "replace"
    /\ fDepots' = Replace(fDepots, op[t].i, MapDepot(op[t].depotInfo))
    /\ fLock' = Unlocked(fLock)
    /\ op' = [op EXCEPT ![t] =
                [name |-> "ReplaceDepotByUrl", url |-> op[t].url,
                 i |-> op[t].i + 1, step |-> "read"]]
    /\ UNCHANGED <<started, indexVars, dataVars, restVars, fCredentials, pc, pkg, flags,
                   alreadyPopulated, reply, shotIndex, entered, done,
                   fetchLog>>

\* Model.cpp:455-457, entered.
SetPackageStateBegin(t) ==
    /\ op[t] = Idle
    /\ started < MaxOps
    /\ started' = started + 1
    /\ \E package \in PopPackages, state \in PackageStates :
        op' = [op EXCEPT ![t] =
                [name |-> "SetPackageState", package |-> package,
                 state |-> state, seen |-> CurrentLists]]
    /\ UNCHANGED <<indexVars, dataVars, threadVars, restVars, fDepots,
                   fCredentials>>

\* Model.cpp:457-485.
SetPackageStateEnd(t) ==
    /\ op[t].name = "SetPackageState"
    /\ LET L == SetPackageStateLists(op[t].seen, op[t].package, op[t].state)
       IN  /\ fInstalledPackages' = L.installed
           /\ fActivatedPackages' = L.activated
           /\ fUninstalledPackages' = L.uninstalled
    /\ pkgState' = [pkgState EXCEPT ![op[t].package] = op[t].state]
    /\ lastSet' = [lastSet EXCEPT ![op[t].package] = op[t].state]
    /\ op' = [op EXCEPT ![t] = Idle]
    /\ UNCHANGED <<started, lastCall, repeats, dataVars, threadVars, restVars, fDepots,
                   fCredentials>>

\* Model.cpp:833-843, entered: the thread waits for the lock.
SetAuthorizationBegin(t) ==
    /\ op[t] = Idle
    /\ started < MaxOps
    /\ started' = started + 1
    /\ \E credentials \in Credentials :
        op' = [op EXCEPT ![t] =
                [name |-> "SetAuthorization", credentials |-> credentials,
                 step |-> "lock"]]
    /\ UNCHANGED <<indexVars, dataVars, threadVars, restVars, fDepots,
                   fCredentials>>

\* Model.cpp:843.
SetAuthorizationLock(t) ==
    /\ op[t].name = "SetAuthorization"
    /\ op[t].step = "lock"
    /\ CanLock(fLock, t)
    /\ fLock' = Locked(fLock, t)
    /\ op' = [op EXCEPT ![t].step = "set"]
    /\ UNCHANGED <<started, indexVars, dataVars, restVars, fDepots, fCredentials, pc, pkg,
                   flags, alreadyPopulated, reply, shotIndex, entered, done,
                   fetchLog>>

\* Model.cpp:844-847.
SetAuthorizationSet(t) ==
    /\ op[t].name = "SetAuthorization"
    /\ op[t].step = "set"
    /\ fCredentials' = op[t].credentials
    /\ fLock' = Unlocked(fLock)
    /\ op' = [op EXCEPT ![t] = Idle]
    /\ UNCHANGED <<started, indexVars, dataVars, restVars, fDepots, pc, pkg, flags,
                   alreadyPopulated, reply, shotIndex, entered, done,
                   fetchLog>>

InitLock ==
    /\ fDepots = <<>>
    /\ fCredentials = <<"", "">>
    /\ op = [t \in Threads |-> Idle]
    /\ started = 0

(***************************************************************************)
(* The request id of the JSON-RPC envelopes.  Every envelope gets          *)
(* ++fRequestIndex, an increment of a static int made without a lock or    *)
(* an atomic: a load and a store, between which other threads may run.     *)
(***************************************************************************)
Instances == 1..NumInstances

\* The two ways an envelope is written: by a JsonBuilder expression
\* (WebAppInterface.cpp:317-326) and by
\* _WriteStandardJsonRpcEnvelopeValues (894-904).
EnvelopeMethods == {"getPkgChangelog", "searchUserRatings"}

NotBuilding == [method |-> "none"]

\* ++fRequestIndex: the value stored and written into the envelope.
NextRequestIndex(read) == read + 1

\* WebAppInterface.cpp:319, 901: the operand of ++fRequestIndex is loaded.
EnvelopeBegin(t) ==
    /\ building[t] = NotBuilding
    /\ Len(envelopes) + Cardinality({u \in Threads :
                            building[u] # NotBuilding}) < MaxEnvelopes
    /\ \E instance \in Instances, method \in EnvelopeMethods :
        building' = [building EXCEPT ![t] =
                        [method |-> method, instance |-> instance,
                         read |-> fRequestIndex]]
    /\ UNCHANGED <<indexVars, dataVars, threadVars, lockVars, filterVars,
                   depotVars, parseVars, rpc, shotVars,
                   searchVars, fRequestIndex, envelopes>>

\* WebAppInterface.cpp:319, 901: the incremented value is stored and becomes
\* the id of the envelope.
EnvelopeEnd(t) ==
    /\ building[t] # NotBuilding
    /\ fRequestIndex' = NextRequestIndex(building[t].read)
    /\ envelopes' = Append(envelopes,
                        [id |-> NextRequestIndex(building[t].read),
                         method |-> building[t].method,
                         instance |-> building[t].instance,
                         thread |-> t])
    /\ building' = [building EXCEPT ![t] = NotBuilding]
    /\ UNCHANGED <<indexVars, dataVars, threadVars, lockVars, filterVars,
                   depotVars, parseVars, rpc, shotVars,
                   searchVars>>

\* WebAppInterface.cpp:264-265.
InitIds ==
    /\ fRequestIndex = 0
    /\ envelopes = <<>>
    /\ building = [t \in Threads |-> NotBuilding]

(***************************************************************************)
(* Model::_PopulatePackageScreenshot (Model.cpp:962-1023) for one          *)
(* screenshot key (code and width), call after call, with the cache file's *)
(* content and both values of fromCacheOnly.                               *)
(***************************************************************************)
\* The bytes of a screenshot: what a file or a reply of the server holds.
ShotContents == {"v1", "v2"}

\* The ages, in seconds, a cache file is looked at with.
ShotAges == {0, FreshnessWindow - 1, FreshnessWindow, FreshnessWindow + 1}

\* No file that can be opened for reading (Model.cpp:973-983).
NoShotFile == [age |-> NoFile, content |-> "none"]

\* RetrieveScreenshot: a failure, or the bytes it wrote to the buffer.
ShotReplies == {"fail"} \cup ShotContents

NoShot == [called |-> FALSE]

\* Mutant: the file is touched but the fetched bytes are not written.
CacheFileAfter_OldBytes(file, fetched, writable) ==
    IF writable THEN [age |-> 0, content |-> file.content] ELSE file

\* Model.cpp:1014-1016: the cache file after a successful retrieval; it is
\* erased and rewritten if it can be opened for writing.
CacheFileAfter(file, fetched, writable) ==
    IF writable THEN [age |-> 0, content |-> fetched] ELSE file

\* Model.cpp:966-1023: the call, given the cache file and the bitmaps of the
\* package, the answer RetrieveScreenshot would give and whether the cache
\* file can be opened for writing.
PopulatePackageScreenshot(file, bitmaps, fromCacheOnly, fetched, writable) ==
    LET in == [called |-> TRUE, fromCacheOnly |-> fromCacheOnly,
               fetched |-> fetched, writable |-> writable,
               fileBefore |-> file, bitmapsBefore |-> bitmaps]
    IN  IF UseCache(file.age, fromCacheOnly)
        THEN in @@ [network |-> FALSE, file |-> file,
                    bitmaps |-> Add(bitmaps, file.content)]
        ELSE IF fromCacheOnly
        THEN in @@ [network |-> FALSE, file |-> file, bitmaps |-> bitmaps]
        ELSE IF fetched = "fail"
        THEN in @@ [network |-> TRUE, file |-> file, bitmaps |-> bitmaps]
        ELSE in @@ [network |-> TRUE,
                    file |-> CacheFileAfter(file, fetched, writable),
                    bitmaps |-> Add(bitmaps, fetched)]

DoPopulatePackageScreenshot ==
    /\ Len(shotBitmaps) < MaxBitmaps
    /\ \E fromCacheOnly \in BOOLEAN, fetched \in ShotReplies,
          writable \in BOOLEAN :
        /\ shot' = PopulatePackageScreenshot(shotFile, shotBitmaps,
                                             fromCacheOnly, fetched, writable)
        /\ shotFile' = shot'.file
        /\ shotBitmaps' = shot'.bitmaps
    /\ UNCHANGED <<indexVars, dataVars, threadVars, lockVars, filterVars,
                   depotVars, parseVars, rpc, idVars,
                   searchVars>>

\* Model.cpp:755: package->ClearScreenshots().
ClearScreenshots ==
    /\ shotBitmaps # <<>>
    /\ shotBitmaps' = <<>>
    /\ UNCHANGED <<indexVars, dataVars, threadVars, lockVars, filterVars,
                   depotVars, parseVars, rpc, idVars,
                   searchVars, shotFile, shot>>

\* Time passes between two calls: the cache file is older at the next one.
Elapse ==
    /\ shotFile # NoShotFile
    /\ \E age \in ShotAges :
        /\ age > shotFile.age
        /\ shotFile' = [shotFile EXCEPT !.age = age]
    /\ UNCHANGED <<indexVars, dataVars, threadVars, lockVars, filterVars,
                   depotVars, parseVars, rpc, idVars,
                   searchVars, shotBitmaps, shot>>

InitShot ==
    /\ shotFile = NoShotFile
    /\ shotBitmaps = <<>>
    /\ shot = NoShot

(***************************************************************************)
(* SearchTermsFilter (Model.cpp:220-282).  A BString is a sequence of      *)
(* characters; offsets count from 0 as in BString.                         *)
(***************************************************************************)
\* The characters of the search strings: letters of both cases, the space
\* and a tabulator.
SearchChars == {"a", "B", " ", "TAB"}

RECURSIVE StringsUpTo(_)
StringsUpTo(n) ==
    IF n = 0 THEN {<<>>}
    ELSE LET shorter == StringsUpTo(n - 1)
         IN  shorter \cup {Append(str, c) : str \in shorter, c \in SearchChars}

SearchStrings == StringsUpTo(MaxSearchLen)

\* The texts of a package's fields.
Texts == {<<>>, <<"A">>, <<"b", "a">>}

\* PackageInfo, the five texts the filter looks at.
SearchedPackages ==
    [name : Texts, title : Texts, publisher : {<<>>, <<"A">>},
     shortDescription : {<<>>, <<"b", "a">>}, fullDescription : Texts]

\* A PackageInfoRef that holds no package.
NullPackage == [name |-> "NULL"]

\* BString::ToLower.
LowerChar(c) == CASE c = "A" -> "a" [] c = "B" -> "b" [] OTHER -> c

ToLower(text) == [i \in DOMAIN text |-> LowerChar(text[i])]

\* string occurs in text at the offset.
OccursAt(text, string, offset) ==
    /\ offset + Len(string) <= Len(text)
    /\ \A k \in 1..Len(string) : text[offset + k] = string[k]

\* BString::FindFirst(string, fromOffset): the first offset, or -1.
FindFirst(text, string, fromOffset) ==
    LET found == {o \in fromOffset..Len(text) : OccursAt(text, string, o)}
    IN  IF found = {} THEN -1
        ELSE CHOOSE o \in found : \A p \in found : o <= p

\* BString::CopyInto(into, fromOffset, length).
CopyInto(text, fromOffset, length) ==
    [k \in 1..length |-> text[fromOffset + k]]

\* Mutant: the terms are kept as they were typed.
StoredTerm_AsTyped(term) == term

\* Model.cpp:233: term.ToLower().
StoredTerm(term) == ToLower(term)

\* Model.cpp:225-237: the loop of the constructor from index on.
RECURSIVE SplitTerms(_, _, _)
SplitTerms(searchTerms, index, terms) ==
    IF index >= Len(searchTerms) THEN terms
    ELSE LET space == FindFirst(searchTerms, <<" ">>, index)
             nextSpace == IF space < 0 THEN Len(searchTerms) ELSE space
         IN  SplitTerms(searchTerms, nextSpace + 1,
                IF nextSpace > index
                THEN Add(terms, StoredTerm(CopyInto(searchTerms, index,
                                                    nextSpace - index)))
                ELSE terms)

\* Model.cpp:275-280.
TextContains(text, string) == FindFirst(ToLower(text), string, 0) >= 0

\* Model.cpp:240-256.
SearchAcceptsPackage(terms, package) ==
    /\ package # NullPackage
    /\ \A i \in DOMAIN terms :
            \/ TextContains(package.name, terms[i])
            \/ TextContains(package.title, terms[i])
            \/ TextContains(package.publisher, terms[i])
            \/ TextContains(package.shortDescription, terms[i])
            \/ TextContains(package.fullDescription, terms[i])

\* Model.cpp:222-238: SearchTermsFilter(searchTerms).
NewSearchTermsFilter ==
    /\ \E searchTerms \in SearchStrings :
        /\ searchString' = searchTerms
        /\ fSearchTerms' = SplitTerms(searchTerms, 0, <<>>)
    /\ accepted' = [called |-> FALSE]
    /\ UNCHANGED <<indexVars, dataVars, threadVars, lockVars, filterVars,
                   depotVars, parseVars, rpc, idVars,
                   shotVars>>

\* Model.cpp:240-256: AcceptsPackage(package).
DoSearchAcceptsPackage ==
    /\ \E package \in SearchedPackages \cup {NullPackage} :
        accepted' = [called |-> TRUE, package |-> package,
                     result |-> SearchAcceptsPackage(fSearchTerms, package)]
    /\ UNCHANGED <<indexVars, dataVars, threadVars, lockVars, filterVars,
                   depotVars, parseVars, rpc, idVars,
                   shotVars, searchString, fSearchTerms>>

InitSearch ==
    /\ searchString = <<>>
    /\ fSearchTerms = <<>>
    /\ accepted = [called |-> FALSE]

(***************************************************************************)
(* The filters of the Model (Model.cpp:54-295, 491-590, 952-959) and       *)
(* Model::CreatePackageList (367-403).  A package is the record of what    *)
(* the filters read of it.                                                 *)
(***************************************************************************)
Suffix_source == <<"_", "s", "o", "u", "r", "c", "e">>

Suffix_devel == <<"_", "d", "e", "v", "e", "l">>

Suffix_debuginfo == <<"_", "d", "e", "b", "u", "g", "i", "n", "f", "o">>

\* Package names: plain, with each of the three suffixes, and one that holds
\* "_source" without ending in it.
PackageNames ==
    {<<"a">>, <<"a">> \o Suffix_source, <<"a">> \o Suffix_devel,
     <<"a">> \o Suffix_debuginfo, Suffix_source \o <<"a">>}

\* PackageInfo: the fields the filters read.
FilteredPackages ==
    [name : PackageNames, title : {<<>>, <<"B">>}, publisher : {<<>>},
     shortDescription : {<<>>}, fullDescription : {<<>>},
     categories : {{}, {"games"}}, prominent : BOOLEAN,
     state : {"NONE", "INSTALLED", "ACTIVATED", "UNINSTALLED"}]

Package(name, title, categories, prominent, state) ==
    [name |-> name, title |-> title, publisher |-> <<>>,
     shortDescription |-> <<>>, fullDescription |-> <<>>,
     categories |-> categories, prominent |-> prominent, state |-> state]

\* The packages of the depots that get listed.
Pkg1 == Package(<<"a">>, <<"B">>, {"games"}, TRUE, "NONE")

Pkg2 == Package(<<"a">> \o Suffix_source, <<>>, {"games"}, TRUE, "NONE")

Pkg3 == Package(<<"a">> \o Suffix_devel, <<"B">>, {}, FALSE, "ACTIVATED")

Pkg4 == Package(<<"a">>, <<>>, {}, FALSE, "INSTALLED")

\* The depots AddDepot is called with.
ListedDepots ==
    {[name |-> "A", url |-> "u1", code |-> "", packages |-> <<Pkg1, Pkg2>>],
     [name |-> "A", url |-> "u1", code |-> "", packages |-> <<Pkg4>>],
     [name |-> "B", url |-> "u2", code |-> "", packages |-> <<Pkg3, Pkg1>>],
     [name |-> "B", url |-> "u2", code |-> "", packages |-> <<>>]}

\* The filter objects.
AnyFilter == [kind |-> "AnyFilter"]

CategoryFilter(category) ==
    [kind |-> "CategoryFilter", fCategory |-> category]

SearchTermsFilter(searchTerms) ==
    [kind |-> "SearchTermsFilter",
     fSearchTerms |-> SplitTerms(searchTerms, 0, <<>>)]

IsFeaturedFilter == [kind |-> "IsFeaturedFilter"]

\* PackageFilter::AcceptsPackage of the four filter classes (Model.cpp:56-62,
\* 98-110, 240-256, 291-294).
AcceptsPackage(filter, package) ==
    CASE filter.kind = "AnyFilter" -> TRUE
      [] filter.kind = "CategoryFilter" ->
            /\ package # NullPackage
            /\ \E category \in package.categories :
                    category = filter.fCategory
      [] filter.kind = "SearchTermsFilter" ->
            SearchAcceptsPackage(filter.fSearchTerms, package)
      [] filter.kind = "IsFeaturedFilter" ->
            package # NullPackage /\ package.prominent

\* SearchTermsFilter::SearchTerms() (Model.cpp:258-271): the terms joined by
\* spaces.
RECURSIVE JoinTerms(_, _, _)
JoinTerms(terms, i, searchTerms) ==
    IF i > Len(terms) THEN searchTerms
    ELSE JoinTerms(terms, i + 1,
            IF terms[i] = <<>> THEN searchTerms
            ELSE IF searchTerms = <<>> THEN terms[i]
            ELSE searchTerms \o <<" ">> \o terms[i])

\* Mutant: a search-terms filter without terms still has search terms.
SearchTerms_Unnormalised(filter) ==
    IF filter.kind # "SearchTermsFilter" THEN <<>>
    ELSE IF filter.fSearchTerms = <<>> THEN <<" ">>
    ELSE JoinTerms(filter.fSearchTerms, 1, <<>>)

\* Model::SearchTerms() (Model.cpp:545-553).
SearchTerms(filter) ==
    IF filter.kind # "SearchTermsFilter" THEN <<>>
    ELSE JoinTerms(filter.fSearchTerms, 1, <<>>)

\* Mutant: the featured filter follows the flag alone.
UpdateIsFeaturedFilter_FlagOnly(show, searchFilter) ==
    IF show THEN IsFeaturedFilter ELSE AnyFilter

\* Model::_UpdateIsFeaturedFilter (Model.cpp:952-959).
UpdateIsFeaturedFilter(show, searchFilter) ==
    IF show /\ SearchTerms(searchFilter) = <<>>
    THEN IsFeaturedFilter ELSE AnyFilter

\* BString::EndsWith.
EndsWith(text, suffix) ==
    /\ Len(suffix) <= Len(text)
    /\ OccursAt(text, suffix, Len(text) - Len(suffix))

\* Model.cpp:297-312.
is_source_package(package) == EndsWith(package.name, Suffix_source)

is_develop_package(package) ==
    \/ EndsWith(package.name, Suffix_devel)
    \/ EndsWith(package.name, Suffix_debuginfo)

\* Mutant: packages that are installed but not active count as installed.
HiddenAsInstalled_NotNone(package) == package.state # "NONE"

\* Model.cpp:399: the state fShowInstalledPackages is about.
HiddenAsInstalled(package) == package.state = "ACTIVATED"

\* Model::MatchesFilter (Model.cpp:393-403).
MatchesFilter(package) ==
    /\ AcceptsPackage(fCategoryFilter, package)
    /\ AcceptsPackage(fSearchTermsFilter, package)
    /\ AcceptsPackage(fIsFeaturedFilter, package)
    /\ fShowAvailablePackages \/ package.state # "NONE"
    /\ fShowInstalledPackages \/ ~HiddenAsInstalled(package)
    /\ fShowSourcePackages \/ ~is_source_package(package)
    /\ fShowDevelopPackages \/ ~is_develop_package(package)

\* Model.cpp:380-384: the inner loop, over the packages of one depot from j.
RECURSIVE ListPackages(_, _, _)
ListPackages(packages, j, resultList) ==
    IF j > Len(packages) THEN resultList
    ELSE ListPackages(packages, j + 1,
            IF MatchesFilter(packages[j]) THEN Add(resultList, packages[j])
            ELSE resultList)

\* Model.cpp:373-386: the outer loop, over the depots from i.
RECURSIVE ListDepots(_, _)
ListDepots(i, resultList) ==
    IF i > Len(fDepots) THEN resultList
    ELSE ListDepots(i + 1,
            IF fDepotFilter # "" /\ fDepotFilter # fDepots[i].name
            THEN resultList
            ELSE ListPackages(fDepots[i].packages, 1, resultList))

\* Model::CreatePackageList (Model.cpp:367-390).
CreatePackageList == ListDepots(1, <<>>)

NoListing == [called |-> FALSE]

\* The filter variables an action does not name stay as they are.
KeepFilters(changed) ==
    /\ IF "fCategoryFilter" \in changed THEN TRUE
       ELSE UNCHANGED fCategoryFilter
    /\ IF "fDepotFilter" \in changed THEN TRUE ELSE UNCHANGED fDepotFilter
    /\ IF "fSearchTermsFilter" \in changed THEN TRUE
       ELSE UNCHANGED fSearchTermsFilter
    /\ IF "fIsFeaturedFilter" \in changed THEN TRUE
       ELSE UNCHANGED fIsFeaturedFilter
    /\ IF "fShowFeaturedPackages" \in changed THEN TRUE
       ELSE UNCHANGED fShowFeaturedPackages
    /\ IF "fShowAvailablePackages" \in changed THEN TRUE
       ELSE UNCHANGED fShowAvailablePackages
    /\ IF "fShowInstalledPackages" \in changed THEN TRUE
       ELSE UNCHANGED fShowInstalledPackages
    /\ IF "fShowSourcePackages" \in changed THEN TRUE
       ELSE UNCHANGED fShowSourcePackages
    /\ IF "fShowDevelopPackages" \in changed THEN TRUE
       ELSE UNCHANGED fShowDevelopPackages

\* A setter has run: a list made before it is not the list of this state.
AfterSetter(changed) ==
    /\ KeepFilters(changed)
    /\ listing' = NoListing
    /\ UNCHANGED <<indexVars, dataVars, threadVars, lockVars, callVars,
                   depotVars, parseVars>>

\* Model.cpp:491-503.
SetCategory ==
    /\ \E category \in {""} \cup {"games"} :
        fCategoryFilter' = IF category = "" THEN AnyFilter
                           ELSE CategoryFilter(category)
    /\ AfterSetter({"fCategoryFilter"})

\* Model.cpp:517-521.
SetDepot ==
    /\ \E depot \in {""} \cup DepotNames : fDepotFilter' = depot
    /\ AfterSetter({"fDepotFilter"})

\* Model.cpp:531-542.
SetSearchTerms ==
    /\ \E searchTerms \in {<<>>, <<"B">>, <<" ">>} :
        fSearchTermsFilter' = IF Len(searchTerms) = 0 THEN AnyFilter
                              ELSE SearchTermsFilter(searchTerms)
    /\ fIsFeaturedFilter' =
            UpdateIsFeaturedFilter(fShowFeaturedPackages, fSearchTermsFilter')
    /\ AfterSetter({"fSearchTermsFilter", "fIsFeaturedFilter"})

\* Model.cpp:556-562.
SetShowFeaturedPackages ==
    /\ \E show \in BOOLEAN :
        /\ fShowFeaturedPackages' = show
        /\ fIsFeaturedFilter' =
                UpdateIsFeaturedFilter(show, fSearchTermsFilter)
    /\ AfterSetter({"fShowFeaturedPackages", "fIsFeaturedFilter"})

\* Model.cpp:564-569.
SetShowAvailablePackages ==
    /\ \E show \in BOOLEAN : fShowAvailablePackages' = show
    /\ AfterSetter({"fShowAvailablePackages"})

\* Model.cpp:571-576.
SetShowInstalledPackages ==
    /\ \E show \in BOOLEAN : fShowInstalledPackages' = show
    /\ AfterSetter({"fShowInstalledPackages"})

\* Model.cpp:578-583.
SetShowSourcePackages ==
    /\ \E show \in BOOLEAN : fShowSourcePackages' = show
    /\ AfterSetter({"fShowSourcePackages"})

\* Model.cpp:585-590.
SetShowDevelopPackages ==
    /\ \E show \in BOOLEAN : fShowDevelopPackages' = show
    /\ AfterSetter({"fShowDevelopPackages"})

\* Model.cpp:406-410, called by the one thread that uses the Model.
AddDepot(depot) ==
    /\ Len(fDepots) < MaxDepots
    /\ fDepots' = Add(fDepots, depot)
    /\ depotCall' = [name |-> "AddDepot", depot |-> depot,
                     result |-> TRUE]
    /\ listing' = NoListing
    /\ KeepFilters({})
    /\ UNCHANGED <<indexVars, dataVars, threadVars, callVars, fCredentials,
                   op, started, parseVars>>

(***************************************************************************)
(* The depot list under calls made one after the other (Model.cpp:406-451, *)
(* 1058-1070).                                                             *)
(***************************************************************************)
\* The depots AddDepot and SyncDepot are called with.
SyncedDepots ==
    [name : DepotNames, url : DepotUrls, code : {""},
     packages : {<<>>, <<1>>, <<2, 1>>}]

\* Mutant: the incoming depot takes the place of the existing one.
MergedDepot_Incoming(existingDepot, depot) == depot

\* Model.cpp:437-438: a copy of the existing depot with the incoming
\* packages synced into it.
MergedDepot(existingDepot, depot) ==
    [existingDepot EXCEPT !.packages = SyncPackages(@, depot.packages)]

\* Model.cpp:434-441: the depots are searched from the last one down to i.
RECURSIVE SyncDepotFrom(_, _)
SyncDepotFrom(i, depot) ==
    IF i < 1 THEN [result |-> FALSE, fDepots |-> fDepots]
    ELSE IF fDepots[i].name = depot.name
    THEN [result |-> TRUE,
          fDepots |-> Replace(fDepots, i, MergedDepot(fDepots[i], depot))]
    ELSE SyncDepotFrom(i - 1, depot)

\* Model::SyncDepot (Model.cpp:431-444).
SyncDepot(depot) ==
    LET synced == SyncDepotFrom(Len(fDepots), depot)
    IN  /\ fDepots' = synced.fDepots
        /\ depotCall' = [name |-> "SyncDepot", depot |-> depot,
                         result |-> synced.result]
        /\ listing' = NoListing
        /\ KeepFilters({})
        /\ UNCHANGED <<indexVars, dataVars, threadVars, callVars,
                       fCredentials, op, started, parseVars>>

\* Model.cpp:1061-1068: the loop from depot i on.  The URLs are held in
\* their normalized form.
RECURSIVE ReplaceDepotsFrom(_, _, _)
ReplaceDepotsFrom(depots, i, URL) ==
    IF i > Len(depots) THEN depots
    ELSE ReplaceDepotsFrom(
            IF depots[i].url = URL THEN Replace(depots, i, MapDepot(depots[i]))
            ELSE depots,
            i + 1, URL)

\* Model::ReplaceDepotByUrl (Model.cpp:1058-1070).
ReplaceDepotByUrl(URL) ==
    /\ fDepots' = ReplaceDepotsFrom(fDepots, 1, URL)
    /\ depotCall' = [name |-> "ReplaceDepotByUrl", URL |-> URL]
    /\ UNCHANGED parseVars
    /\ listing' = NoListing
    /\ KeepFilters({})
    /\ UNCHANGED <<indexVars, dataVars, threadVars, callVars, fCredentials,
                   op, started>>

\* Mutant: the index lists are emptied with the depots.
Clear_WithIndexLists ==
    /\ fDepots' = <<>>
    /\ fInstalledPackages' = <<>>
    /\ fActivatedPackages' = <<>>
    /\ fUninstalledPackages' = <<>>
    /\ depotCall' = [name |-> "Clear"]
    /\ UNCHANGED parseVars
    /\ listing' = NoListing
    /\ KeepFilters({})
    /\ UNCHANGED <<pkgState, lastSet, lastCall, repeats, dataVars, threadVars,
                   callVars, fCredentials, op, started>>

\* Model::Clear (Model.cpp:447-451).
Clear ==
    /\ fDepots' = <<>>
    /\ depotCall' = [name |-> "Clear"]
    /\ UNCHANGED parseVars
    /\ listing' = NoListing
    /\ KeepFilters({})
    /\ UNCHANGED <<indexVars, dataVars, threadVars, callVars, fCredentials,
                   op, started>>

\* Model.cpp:367-390: the list of the state the Model is in.
DoCreatePackageList ==
    /\ listing' = [called |-> TRUE, resultList |-> CreatePackageList]
    /\ KeepFilters({})
    /\ UNCHANGED <<indexVars, dataVars, threadVars, lockVars, callVars,
                   depotVars, parseVars>>

(***************************************************************************)
(* The filters called on a PackageInfoRef that may hold no package         *)
(* (Model.cpp:54-295, 393-403).  A call returns "true" or "false", or it   *)
(* reads through the NULL pointer: the behaviour is then undefined, and    *)
(* the call may fault or return either value.                              *)
(***************************************************************************)
Outcomes == {"true", "false", "fault"}

Returns(result) == {IF result THEN "true" ELSE "false"}

\* The filter classes Model does not install itself.
DepotFilter(depot) == [kind |-> "DepotFilter", fDepot |-> depot]

ContainedInFilter(packageList) ==
    [kind |-> "ContainedInFilter", fPackageList |-> packageList]

ContainedInEitherFilter(packageListA, packageListB) ==
    [kind |-> "ContainedInEitherFilter", fPackageListA |-> packageListA,
     fPackageListB |-> packageListB]

NotContainedInFilter(packageLists) ==
    [kind |-> "NotContainedInFilter", fPackageLists |-> packageLists]

StateFilter(state) == [kind |-> "StateFilter", fState |-> state]

\* One filter object of each class, over lists of packages.
FilterObjects ==
    {AnyFilter, CategoryFilter("games"), SearchTermsFilter(<<"a">>),
     SearchTermsFilter(<<>>), IsFeaturedFilter, StateFilter("NONE"),
     StateFilter("ACTIVATED"), ContainedInFilter(<<Pkg1, Pkg2>>),
     ContainedInFilter(<<>>), ContainedInEitherFilter(<<Pkg1>>, <<Pkg3>>),
     NotContainedInFilter(<<<<Pkg1>>, <<Pkg3>>>>),
     NotContainedInFilter(<<>>)}
        \cup {DepotFilter(depot) : depot \in ListedDepots}

\* The packages the filters are called with.
CalledPackages == {NullPackage, Pkg1, Pkg3, Pkg4}

\* Model.cpp:210-213: package->State() with no look at the reference.
StateFilterAccepts(filter, package) ==
    IF package = NullPackage THEN Outcomes
    ELSE Returns(package.state = "NONE")

\* AcceptsPackage of the nine filter classes: the outcomes a call can have.
AcceptsPackageOutcomes(filter, package) ==
    CASE filter.kind = "DepotFilter" ->
            Returns(Contains(filter.fDepot.packages, package))
      [] filter.kind = "ContainedInFilter" ->
            Returns(Contains(filter.fPackageList, package))
      [] filter.kind = "ContainedInEitherFilter" ->
            Returns(\/ Contains(filter.fPackageListA, package)
                    \/ Contains(filter.fPackageListB, package))
      [] filter.kind = "NotContainedInFilter" ->
            Returns(/\ package # NullPackage
                    /\ \A i \in DOMAIN filter.fPackageLists :
                            ~Contains(filter.fPackageLists[i], package))
      [] filter.kind = "StateFilter" -> StateFilterAccepts(filter, package)
      [] OTHER -> Returns(AcceptsPackage(filter, package))

\* Model.cpp:399-402: with the three filters passed, the first show-flag
\* that is off makes MatchesFilter read the package.
ReadsThroughNull(package) ==
    /\ package = NullPackage
    /\ \/ ~fShowAvailablePackages
       \/ ~fShowInstalledPackages
       \/ ~fShowSourcePackages
       \/ ~fShowDevelopPackages

\* Model::MatchesFilter (Model.cpp:393-403): the outcomes a call can have.
MatchesFilterOutcomes(package) ==
    IF ~(/\ AcceptsPackage(fCategoryFilter, package)
         /\ AcceptsPackage(fSearchTermsFilter, package)
         /\ AcceptsPackage(fIsFeaturedFilter, package))
    THEN {"false"}
    ELSE IF ReadsThroughNull(package) THEN Outcomes
    ELSE IF package = NullPackage THEN {"true"}
    ELSE Returns(MatchesFilter(package))

\* filter.AcceptsPackage(package).
DoAcceptsPackage ==
    /\ \E filter \in FilterObjects, package \in CalledPackages :
        \E result \in AcceptsPackageOutcomes(filter, package) :
            accepted' = [called |-> TRUE, method |-> "AcceptsPackage",
                         filter |-> filter, package |-> package,
                         result |-> result]
    /\ UNCHANGED <<indexVars, dataVars, threadVars, lockVars, filterVars,
                   depotVars, parseVars, rpc, idVars,
                   shotVars, searchString, fSearchTerms>>

\* Model::MatchesFilter(package).
DoMatchesFilter ==
    /\ \E package \in CalledPackages :
        \E result \in MatchesFilterOutcomes(package) :
            accepted' = [called |-> TRUE, method |-> "MatchesFilter",
                         package |-> package, result |-> result]
    /\ UNCHANGED <<indexVars, dataVars, threadVars, lockVars, filterVars,
                   depotVars, parseVars, rpc, idVars,
                   shotVars, searchString, fSearchTerms>>

\* Model::Model (Model.cpp:330-345).
InitFilter ==
    /\ fCategoryFilter = AnyFilter
    /\ fDepotFilter = ""
    /\ fSearchTermsFilter = AnyFilter
    /\ fShowFeaturedPackages = TRUE
    /\ fShowAvailablePackages = TRUE
    /\ fShowInstalledPackages = TRUE
    /\ fShowSourcePackages = FALSE
    /\ fShowDevelopPackages = FALSE
    /\ fIsFeaturedFilter = UpdateIsFeaturedFilter(TRUE, AnyFilter)
    /\ listing = NoListing
    /\ depotCall = [name |-> "none"]

InitThreads ==
    /\ fLock = LockFree
    /\ fPopulatedPackages = <<>>
    /\ changelog = [p \in DataPackages |-> ""]
    /\ userRatings = [p \in DataPackages |-> <<>>]
    /\ screenshots = [p \in DataPackages |-> <<>>]
    /\ cache = [c \in ShotCodes \cup GalleryCodes |-> NoFile]
    /\ pc = [t \in Threads |-> "idle"]
    /\ pkg = [t \in Threads |-> 1]
    /\ flags = [t \in Threads |-> {}]
    /\ alreadyPopulated = [t \in Threads |-> FALSE]
    /\ reply = [t \in Threads |-> "none"]
    /\ shotIndex = [t \in Threads |-> 0]
    /\ entered = [t \in Threads |-> FALSE]
    /\ done = [t \in Threads |-> {}]
    /\ fetchLog = <<>>

(***************************************************************************)
(* The unpacking of a user-ratings response (Model.cpp:644-741).  A        *)
(* BMessage is the function from the names it holds to their values, so    *)
(* Find...() returns B_OK for the names of its domain.                     *)
(***************************************************************************)
Has(message, name) == name \in DOMAIN message

\* The items of a response.
ItemShapes ==
    {[code |-> "c", user |-> [nickname |-> "n"], comment |-> "good",
      rating |-> 4],
     [code |-> "c", user |-> [nickname |-> "n"], comment |-> "fine"],
     [code |-> "c", user |-> [nickname |-> "n"], rating |-> 2],
     [code |-> "c", user |-> [nickname |-> "n"], comment |-> "",
      rating |-> -1],
     [code |-> "c", user |-> [nickname |-> "n"]],
     [user |-> [nickname |-> "n"], comment |-> "good", rating |-> 4],
     [code |-> "c", comment |-> "good", rating |-> 4],
     [code |-> "c", user |-> <<>>, comment |-> "good", rating |-> 4]}

\* name << index, for the indexes of one digit.
IndexName(index) == <<"0", "1", "2", "3", "4", "5", "6", "7", "8", "9">>[index + 1]

ItemNames == {IndexName(index) : index \in 0..(MaxItems - 1)}

\* The "items" messages: any of the names, each with any item.
ItemsMessages ==
    UNION {[names -> ItemShapes] : names \in SUBSET ItemNames}

\* Mutant: a rating is taken without a look at the user's nickname.
HasNickname_Unchecked(item) == TRUE

\* Model.cpp:670-671.
HasNickname(item) ==
    Has(item, "user") /\ Has(item.user, "nickname")

\* Model.cpp:682-684: comment stays empty and rating becomes -1 when the
\* item does not hold them.
CommentOf(item) == IF Has(item, "comment") THEN item.comment ELSE ""

RatingOf(item) == IF Has(item, "rating") THEN item.rating ELSE -1

\* Model.cpp:668-671: user stays empty when no nickname is found.
NicknameOf(item) ==
    IF Has(item, "user") /\ Has(item.user, "nickname")
    THEN item.user.nickname ELSE ""

\* Model.cpp:727-729: what the model keeps of the UserRating.
UserRating(item) ==
    [user |-> NicknameOf(item),
     rating |-> RatingOf(item), comment |-> CommentOf(item)]

\* Model.cpp:652-736: the loop from index on; every continue goes to the
\* next index.
RECURSIVE UnpackItems(_, _, _)
UnpackItems(items, index, ratings) ==
    LET name == IndexName(index)
    IN  IF index >= MaxItems \/ ~Has(items, name) THEN ratings
        ELSE LET item == items[name]
             IN  IF ~Has(item, "code")
                 THEN UnpackItems(items, index + 1, ratings)
                 ELSE IF ~HasNickname(item)
                 THEN UnpackItems(items, index + 1, ratings)
                 ELSE IF CommentOf(item) = "" /\ RatingOf(item) = -1
                 THEN UnpackItems(items, index + 1, ratings)
                 ELSE UnpackItems(items, index + 1,
                                  Add(ratings, UserRating(item)))

\* Model.cpp:649-736 on a response that holds result.items.
DoUnpackItems ==
    /\ \E items \in ItemsMessages :
        unpacked' = [called |-> TRUE, items |-> items,
                     ratings |-> UnpackItems(items, 0, <<>>)]
    /\ UNCHANGED <<indexVars, dataVars, threadVars, lockVars, callVars,
                   filterVars, depotVars, sent>>

(***************************************************************************)
(* The request body of WebAppInterface::GetChangelog                       *)
(* (WebAppInterface.cpp:43-193, 314-329, 1037-1047), character by          *)
(* character.  "LF", "TAB" and "SOH" stand for the characters U+000A,      *)
(* U+0009 and U+0001.                                                      *)
(***************************************************************************)
NameChars == {"a", "\"", "\\", "/", "LF", "TAB", "SOH"}

RECURSIVE NamesUpTo(_)
NamesUpTo(n) ==
    IF n = 0 THEN {<<>>}
    ELSE LET shorter == NamesUpTo(n - 1)
         IN  shorter \cup {Append(str, c) : str \in shorter, c \in NameChars}

ChangelogNames == NamesUpTo(MaxNameLen)

\* BString::ReplaceAll for a pattern of one character.
RECURSIVE ReplaceAll(_, _, _)
ReplaceAll(string, replaceThis, withThis) ==
    IF string = <<>> THEN <<>>
    ELSE (IF Head(string) = replaceThis THEN withThis ELSE <<Head(string)>>)
            \o ReplaceAll(Tail(string), replaceThis, withThis)

\* JsonBuilder::_EscapeString (WebAppInterface.cpp:176-188): the eight
\* replacements, one after the other.
EscapeString(original) ==
    LET s1 == ReplaceAll(original, "\\", <<"\\", "\\">>)
        s2 == ReplaceAll(s1, "\"", <<"\\", "\"">>)
        s3 == ReplaceAll(s2, "/", <<"\\", "/">>)
        s4 == ReplaceAll(s3, "BS", <<"\\", "b">>)
        s5 == ReplaceAll(s4, "FF", <<"\\", "f">>)
        s6 == ReplaceAll(s5, "LF", <<"\\", "n">>)
        s7 == ReplaceAll(s6, "CR", <<"\\", "r">>)
    IN  ReplaceAll(s7, "TAB", <<"\\", "t">>)

DecimalDigits == <<"0", "1", "2", "3", "4", "5", "6", "7", "8", "9">>

\* BString << int: the decimal digits of the value.
RECURSIVE Decimal(_)
Decimal(value) ==
    IF value < 0 THEN <<"-">> \o Decimal(-value)
    ELSE IF value < 10 THEN <<DecimalDigits[value + 1]>>
    ELSE Decimal(value \div 10) \o <<DecimalDigits[(value % 10) + 1]>>

\* JsonBuilder() (WebAppInterface.cpp:45-50).
JsonBuilder == [fString |-> <<"{">>, fInList |-> FALSE]

\* WebAppInterface.cpp:166-174.
StartName(builder, name) ==
    [builder EXCEPT !.fString =
        @ \o (IF builder.fInList THEN <<",", "\"">> ELSE <<"\"">>)
          \o EscapeString(name) \o <<"\"", ":">>]

\* AddValue(name, const char* value) (WebAppInterface.cpp:121-139).
AddValue(builder, name, value) ==
    [fString |-> StartName(builder, name).fString
                    \o <<"\"">> \o EscapeString(value) \o <<"\"">>,
     fInList |-> TRUE]

\* AddValue(name, int value) (WebAppInterface.cpp:141-147).
AddIntValue(builder, name, value) ==
    [fString |-> StartName(builder, name).fString \o Decimal(value),
     fInList |-> TRUE]

\* WebAppInterface.cpp:74-80.
AddArray(builder, name) ==
    [fString |-> StartName(builder, name).fString \o <<"[">>,
     fInList |-> FALSE]

\* WebAppInterface.cpp:52-57.
AddObject(builder) ==
    [fString |-> builder.fString \o <<"{">>, fInList |-> FALSE]

\* WebAppInterface.cpp:67-72.
EndObject(builder) ==
    [fString |-> builder.fString \o <<"}">>, fInList |-> TRUE]

\* WebAppInterface.cpp:82-87.
EndArray(builder) ==
    [fString |-> builder.fString \o <<"]">>, fInList |-> TRUE]

\* WebAppInterface.cpp:160-164.
End(builder) == builder.fString \o <<"}", "LF">>

Name_jsonrpc == <<"j", "s", "o", "n", "r", "p", "c">>

Name_id == <<"i", "d">>

Name_method == <<"m", "e", "t", "h", "o", "d">>

Name_params == <<"p", "a", "r", "a", "m", "s">>

Name_pkgName == <<"p", "k", "g", "N", "a", "m", "e">>

Version_2_0 == <<"2", ".", "0">>

Method_getPkgChangelog ==
    <<"g", "e", "t", "P", "k", "g", "C", "h", "a", "n", "g", "e", "l", "o",
      "g">>

\* WebAppInterface.cpp:317-326: the string GetChangelog builds.
ChangelogJsonString(packageName, requestIndex) ==
    LET b1 == AddValue(JsonBuilder, Name_jsonrpc, Version_2_0)
        b2 == AddIntValue(b1, Name_id, requestIndex)
        b3 == AddValue(b2, Name_method, Method_getPkgChangelog)
        b4 == AddArray(b3, Name_params)
        b5 == AddObject(b4)
        b6 == AddValue(b5, Name_pkgName, packageName)
        b7 == EndObject(b6)
        b8 == EndArray(b7)
    IN  End(b8)

\* WebAppInterface.cpp:1041-1045: the first Length() - 1 bytes are sent.
RequestBody(jsonString) == SubSeq(jsonString, 1, Len(jsonString) - 1)

\* WebAppInterface::GetChangelog (WebAppInterface.cpp:314-329), up to the
\* body handed to the request.
DoGetChangelog ==
    /\ fRequestIndex < MaxEnvelopes
    /\ fRequestIndex' = fRequestIndex + 1
    /\ \E packageName \in ChangelogNames :
        sent' = [called |-> TRUE, packageName |-> packageName,
                 body |-> RequestBody(ChangelogJsonString(packageName,
                                                          fRequestIndex'))]
    /\ UNCHANGED <<indexVars, dataVars, threadVars, lockVars, filterVars,
                   depotVars, rpc, envelopes, building, shotVars, searchVars,
                   unpacked>>

(***************************************************************************)
(* JSON text as RFC 8259 defines it, read back into a value: an object is  *)
(* the list of its members, a string the list of its characters.  Inside   *)
(* a string the control characters must be escaped.  White space between   *)
(* tokens and \u escapes are not read.                                     *)
(***************************************************************************)
ControlChars == {"BS", "FF", "LF", "CR", "TAB", "SOH"}

EscapeLetters == {"\"", "\\", "/", "b", "f", "n", "r", "t"}

Unescaped(letter) ==
    CASE letter = "b" -> "BS"
      [] letter = "f" -> "FF"
      [] letter = "n" -> "LF"
      [] letter = "r" -> "CR"
      [] letter = "t" -> "TAB"
      [] OTHER -> letter

At(text, i) == IF i <= Len(text) THEN text[i] ELSE "EOF"

Malformed == [ok |-> FALSE]

Parsed(value, next) == [ok |-> TRUE, value |-> value, next |-> next]

\* The characters of a string from i on, up to the closing quote.
RECURSIVE ParseString(_, _, _)
ParseString(text, i, chars) ==
    LET c == At(text, i)
    IN  IF c = "EOF" \/ c \in ControlChars THEN Malformed
        ELSE IF c = "\"" THEN Parsed([type |-> "string", chars |-> chars],
                                      i + 1)
        ELSE IF c = "\\"
        THEN IF At(text, i + 1) \in EscapeLetters
             THEN ParseString(text, i + 2,
                              Append(chars, Unescaped(At(text, i + 1))))
             ELSE Malformed
        ELSE ParseString(text, i + 1, Append(chars, c))

DigitValue(c) == CHOOSE d \in 0..9 : DecimalDigits[d + 1] = c

IsDigit(c) == \E d \in 0..9 : DecimalDigits[d + 1] = c

RECURSIVE ParseDigits(_, _, _)
ParseDigits(text, i, value) ==
    IF IsDigit(At(text, i))
    THEN ParseDigits(text, i + 1, value * 10 + DigitValue(At(text, i)))
    ELSE Parsed([type |-> "number", value |-> value], i)

\* An integer: an optional minus sign, then 0 or digits without leading 0.
ParseNumber(text, i) ==
    LET negative == At(text, i) = "-"
        first == IF negative THEN i + 1 ELSE i
    IN  IF ~IsDigit(At(text, first)) THEN Malformed
        ELSE IF At(text, first) = "0" /\ IsDigit(At(text, first + 1))
        THEN Malformed
        ELSE LET digits == ParseDigits(text, first, 0)
             IN  IF negative
                 THEN Parsed([type |-> "number",
                              value |-> -digits.value.value], digits.next)
                 ELSE digits

RECURSIVE ParseValue(_, _)
RECURSIVE ParseMembers(_, _, _)
RECURSIVE ParseElements(_, _, _)

\* The members of an object from i on: "name":value, then "," or "}".
ParseMembers(text, i, members) ==
    IF At(text, i) # "\"" THEN Malformed
    ELSE LET name == ParseString(text, i + 1, <<>>)
         IN  IF ~name.ok \/ At(text, name.next) # ":" THEN Malformed
             ELSE LET member == ParseValue(text, name.next + 1)
                  IN  IF ~member.ok THEN Malformed
                      ELSE LET all == Append(members,
                                        [name |-> name.value.chars,
                                         value |-> member.value])
                           IN  IF At(text, member.next) = ","
                               THEN ParseMembers(text, member.next + 1, all)
                               ELSE IF At(text, member.next) = "}"
                               THEN Parsed([type |-> "object",
                                            members |-> all],
                                           member.next + 1)
                               ELSE Malformed

\* The elements of an array from i on: value, then "," or "]".
ParseElements(text, i, items) ==
    LET element == ParseValue(text, i)
    IN  IF ~element.ok THEN Malformed
        ELSE LET all == Append(items, element.value)
             IN  IF At(text, element.next) = ","
                 THEN ParseElements(text, element.next + 1, all)
                 ELSE IF At(text, element.next) = "]"
                 THEN Parsed([type |-> "array", items |-> all],
                             element.next + 1)
                 ELSE Malformed

ParseValue(text, i) ==
    LET c == At(text, i)
    IN  IF c = "{"
        THEN IF At(text, i + 1) = "}"
             THEN Parsed([type |-> "object", members |-> <<>>], i + 2)
             ELSE ParseMembers(text, i + 1, <<>>)
        ELSE IF c = "["
        THEN IF At(text, i + 1) = "]"
             THEN Parsed([type |-> "array", items |-> <<>>], i + 2)
             ELSE ParseElements(text, i + 1, <<>>)
        ELSE IF c = "\"" THEN ParseString(text, i + 1, <<>>)
        ELSE IF c = "-" \/ IsDigit(c) THEN ParseNumber(text, i)
        ELSE Malformed

\* The whole text is one JSON value.
ParseJson(text) ==
    LET parsed == ParseValue(text, 1)
    IN  IF parsed.ok /\ parsed.next = Len(text) + 1 THEN parsed
        ELSE Malformed

InitParse ==
    /\ unpacked = [called |-> FALSE]
    /\ sent = [called |-> FALSE]

Init == InitIndex /\ InitThreads /\ InitSend /\ InitLock /\ InitIds
        /\ InitShot /\ InitSearch /\ InitFilter /\ InitParse

NextThreads ==
    \/ \E code \in ShotCodes : Expire(code)
    \/ \E t \in Threads :
        \/ Return(t)
        \/ Call(t)
        \/ Acquire(t)
        \/ P_Check(t)
        \/ CL_Name(t)
        \/ CL_Reply(t)
        \/ CL_Set(t)
        \/ UR_Read(t)
        \/ UR_Reply(t)
        \/ UR_Unpack(t)
        \/ SS_Copy(t)
        \/ SS_Loop(t)
        \/ SC_Add(t)
        \/ SN_Reply(t)
        \/ SN_Add(t)

SpecThreads == Init /\ [][NextThreads]_vars

\* One caller populates GalleryPackage, call after call.
Caller == 1

PopulateStep ==
    \/ Return(Caller)
    \/ Acquire(Caller)
    \/ P_Check(Caller)
    \/ CL_Name(Caller)
    \/ CL_Reply(Caller)
    \/ CL_Set(Caller)
    \/ UR_Read(Caller)
    \/ UR_Reply(Caller)
    \/ UR_Unpack(Caller)
    \/ SS_Copy(Caller)
    \/ SS_Loop(Caller)
    \/ SC_Add(Caller)
    \/ SN_Reply(Caller)
    \/ SN_Add(Caller)

NextPopulate ==
    \/ \E code \in GalleryCodes : Expire(code)
    \/ CallGallery(Caller)
    \/ PopulateStep

\* What the filters read of GalleryPackage; its state is in pkgState.
GalleryInfo ==
    [id |-> GalleryPackage, name |-> <<"a">>, title |-> <<"B">>,
     publisher |-> <<>>, shortDescription |-> <<>>, fullDescription |-> <<>>,
     categories |-> {"games"}, prominent |-> TRUE]

\* The depot that holds GalleryPackage.
GalleryDepot ==
    [name |-> "A", url |-> "u1", code |-> "", packages |-> <<GalleryInfo>>]

\* The caller populates GalleryPackage again and again while its depot is
\* added and the depots are cleared.
NextRepopulate ==
    \/ CallGallery(Caller)
    \/ PopulateStep
    \/ AddDepot(GalleryDepot)
    \/ Clear

SpecRepopulate == Init /\ [][NextRepopulate]_vars

\* Depots are added and cleared while the state of GalleryPackage is set, it
\* is marked populated, credentials and the featured flag are set and the
\* display list is made.
NextClear ==
    \/ AddDepot(GalleryDepot)
    \/ Clear
    \/ \E state \in PackageStates : SetPackageState(GalleryPackage, state)
    \/ CallNoFetch(Caller)
    \/ Acquire(Caller)
    \/ P_Check(Caller)
    \/ Return(Caller)
    \/ SetAuthorization
    \/ SetShowFeaturedPackages
    \/ DoCreatePackageList

SpecClear == Init /\ [][NextClear]_vars

\* A call that has begun goes on until it returns: the caller's thread
\* runs, and every call into the web-app comes back.
SpecPopulate == Init /\ [][NextPopulate]_vars /\ WF_vars(PopulateStep)

NextLock ==
    \E t \in Threads :
        \/ AddDepotBegin(t)
        \/ AddDepotEnd(t)
        \/ SyncDepotBegin(t)
        \/ SyncDepotEnd(t)
        \/ ClearBegin(t)
        \/ ClearEnd(t)
        \/ ReplaceDepotByUrlBegin(t)
        \/ ReplaceDepotByUrlRead(t)
        \/ ReplaceDepotByUrlLock(t)
        \/ ReplaceDepotByUrlReplace(t)
        \/ SetPackageStateBegin(t)
        \/ SetPackageStateEnd(t)
        \/ SetAuthorizationBegin(t)
        \/ SetAuthorizationLock(t)
        \/ SetAuthorizationSet(t)

SpecLock == Init /\ [][NextLock]_vars

NextIds == \E t \in Threads : EnvelopeBegin(t) \/ EnvelopeEnd(t)

SpecIds == Init /\ [][NextIds]_vars

NextShot == DoPopulatePackageScreenshot \/ ClearScreenshots \/ Elapse

SpecShot == Init /\ [][NextShot]_vars

NextSearch == NewSearchTermsFilter \/ DoSearchAcceptsPackage

SpecSearch == Init /\ [][NextSearch]_vars

NextFilter ==
    \/ SetCategory
    \/ SetDepot
    \/ SetSearchTerms
    \/ SetShowFeaturedPackages
    \/ SetShowAvailablePackages
    \/ SetShowInstalledPackages
    \/ SetShowSourcePackages
    \/ SetShowDevelopPackages
    \/ \E depot \in ListedDepots : AddDepot(depot)
    \/ DoCreatePackageList

SpecFilter == Init /\ [][NextFilter]_vars

\* The filters are set and then called, also on a reference that holds no
\* package.
NextNull ==
    \/ SetCategory
    \/ SetSearchTerms
    \/ SetShowFeaturedPackages
    \/ SetShowAvailablePackages
    \/ SetShowInstalledPackages
    \/ SetShowSourcePackages
    \/ SetShowDevelopPackages
    \/ DoAcceptsPackage
    \/ DoMatchesFilter

SpecNull == Init /\ [][NextNull]_vars

NextUnpack == DoUnpackItems

SpecUnpack == Init /\ [][NextUnpack]_vars

NextChangelog == DoGetChangelog

SpecChangelog == Init /\ [][NextChangelog]_vars

NextDepots ==
    \/ \E depot \in SyncedDepots : AddDepot(depot)
    \/ \E depot \in SyncedDepots : SyncDepot(depot)
    \/ \E URL \in DepotUrls : ReplaceDepotByUrl(URL)
    \/ Clear

SpecDepots == Init /\ [][NextDepots]_vars

NextAuth ==
    \/ SetAuthorization
    \/ DoSendJsonRequestStored
    \/ DoRetrieveUserDetailForCredentials

SpecAuth == Init /\ [][NextAuth]_vars

NextSend == DoSendJsonRequest

SpecSend == Init /\ [][NextSend]_vars

NextState ==
    \E package \in Packages, state \in PackageStates :
        SetPackageState(package, state)

SpecState == Init /\ [][NextState]_vars

(***************************************************************************)
(* Claims about the index lists (checked under SpecState).                 *)
(***************************************************************************)
ListsHolding(package) ==
    {name \in {"installed", "activated", "uninstalled"} :
        Contains(CurrentLists[name], package)}

\* The index lists Model::SetPackageState leaves a package in, by state.
ListsOfState(state) ==
    CASE state = "INSTALLED" -> {"installed"}
      [] state = "ACTIVATED" -> {"installed", "activated"}
      [] state = "UNINSTALLED" -> {"uninstalled"}
      [] OTHER -> {}

\* C1 as stated: every package is in at most one of the three index lists,
\* and the list it is in is the one named by its own state field.
C1_AtMostOneList ==
    \A p \in Packages :
        /\ Cardinality(ListsHolding(p)) <= 1
        /\ Contains(fInstalledPackages, p) => pkgState[p] = "INSTALLED"
        /\ Contains(fActivatedPackages, p) => pkgState[p] = "ACTIVATED"
        /\ Contains(fUninstalledPackages, p) => pkgState[p] = "UNINSTALLED"

\* C1 amended: the lists a package is in match its own state field; it is
\* in at most one list unless its state is ACTIVATED, and then it is in both
\* the installed and the activated list (never in the uninstalled one).
C1_ListsMatchState ==
    \A p \in Packages :
        /\ ListsHolding(p) = ListsOfState(pkgState[p])
        /\ pkgState[p] # "ACTIVATED" => Cardinality(ListsHolding(p)) <= 1
        /\ pkgState[p] = "ACTIVATED" =>
                ListsHolding(p) = {"installed", "activated"}

C1_Witness ==
    \E p, q \in Packages :
        /\ pkgState[p] = "ACTIVATED"
        /\ Contains(fInstalledPackages, p) /\ Contains(fActivatedPackages, p)
        /\ pkgState[q] = "UNINSTALLED" /\ Contains(fUninstalledPackages, q)

\* C2: membership in the three index lists depends only on the last state
\* set for the package, every package occurs at most once in each list, and
\* the package's state field is that last state.
C2_LastStateDecides ==
    \A p \in Packages :
        /\ CountOf(fInstalledPackages, p) <= 1
        /\ CountOf(fActivatedPackages, p) <= 1
        /\ CountOf(fUninstalledPackages, p) <= 1
        /\ lastSet[p] = "unset" =>
                /\ pkgState[p] = "NONE"
                /\ ListsHolding(p) = {}
        /\ lastSet[p] # "unset" =>
                /\ pkgState[p] = lastSet[p]
                /\ Contains(fInstalledPackages, p)
                        <=> lastSet[p] \in {"INSTALLED", "ACTIVATED"}
                /\ Contains(fActivatedPackages, p) <=> lastSet[p] = "ACTIVATED"
                /\ Contains(fUninstalledPackages, p)
                        <=> lastSet[p] = "UNINSTALLED"

\* Two packages set to the same state in the opposite order of a third list,
\* and one taken back to NONE after having been somewhere.
C2_Witness ==
    \E p, q, r \in Packages :
        /\ p # q /\ q # r /\ p # r
        /\ lastSet[p] = "ACTIVATED" /\ lastSet[q] = "ACTIVATED"
        /\ fInstalledPackages = <<p, q>>
        /\ fActivatedPackages = <<q, p>>
        /\ lastSet[r] = "NONE"

\* C3: a SetPackageState call that repeats the arguments of the call before
\* it changes neither the three index lists (contents and order) nor the
\* package's state field.
C3_Idempotent ==
    [][(lastCall' = lastCall /\ repeats' = repeats + 1) =>
            /\ fInstalledPackages' = fInstalledPackages
            /\ fActivatedPackages' = fActivatedPackages
            /\ fUninstalledPackages' = fUninstalledPackages
            /\ pkgState' = pkgState]_vars

C3_Witness ==
    /\ repeats >= 1
    /\ lastCall[2] = "ACTIVATED"
    /\ Contains(fActivatedPackages, lastCall[1])
    /\ Len(fInstalledPackages) >= 2

(***************************************************************************)
(* Claims about Model::PopulatePackage (checked under SpecThreads).        *)
(***************************************************************************)
\* The sub-fetches the flags of a call ask for.
Requested(fl) ==
    {k \in {"changelog", "ratings", "screenshots"} :
        \/ k = "changelog" /\ "POPULATE_CHANGELOG" \in fl
        \/ k = "ratings" /\ "POPULATE_USER_RATINGS" \in fl
        \/ k = "screenshots" /\ "POPULATE_SCREEN_SHOTS" \in fl}

\* The call of thread t is past the populated check of Model.cpp:612-617.
Checked(t) == pc[t] \notin {"idle", "P_lock", "P_check"}

Forced(t) == "POPULATE_FORCE" \in flags[t]

C4_States ==
    \A t \in Threads :
        \* without the force flag, on a populated package: no sub-fetch
        /\ (Checked(t) /\ ~Forced(t) /\ alreadyPopulated[t]) =>
                (pc[t] = "returned" /\ done[t] = {})
        \* with the force flag every requested sub-fetch is performed, also
        \* when the package was populated already
        /\ (pc[t] = "returned" /\ Forced(t)) => done[t] = Requested(flags[t])
        \* whoever fetches, fetches for a package marked as populated
        /\ (Checked(t) /\ pc[t] # "returned") =>
                Contains(fPopulatedPackages, pkg[t])
        /\ done[t] # {} => Contains(fPopulatedPackages, pkg[t])

C4_SkipStep ==
    \A t \in Threads :
        (/\ pc[t] = "P_check"
         /\ pc'[t] # "P_check"
         /\ ~Forced(t)
         /\ Contains(fPopulatedPackages, pkg[t])) =>
            /\ pc'[t] = "returned"
            /\ done'[t] = {}
            /\ UNCHANGED dataVars

\* C4: a PopulatePackage call without the force flag on a package of the
\* populated-set performs no sub-fetch and changes neither the package nor
\* the populated-set; a call with the force flag performs every requested
\* sub-fetch even when the package is populated already; and whenever a call
\* fetches, its package is in the populated-set.
C4_PopulateOnce == []C4_States /\ [][C4_SkipStep]_vars

C4_Witness ==
    \E t, u \in Threads :
        /\ t # u /\ pkg[t] = pkg[u]
        /\ Forced(t) /\ alreadyPopulated[t] /\ pc[t] \in NetworkPcs
        /\ ~Forced(u) /\ alreadyPopulated[u] /\ pc[u] = "returned"
        /\ Requested(flags[u]) # {}

\* C5 as stated, read as what happens to every pair of calls without the
\* force flag begun for the same package while it was not yet populated: both
\* pass the populated check (neither finds the package marked by the other).
C5_BothPassCheck ==
    \A t, u \in Threads :
        (/\ t # u /\ pkg[t] = pkg[u]
         /\ ~Forced(t) /\ ~Forced(u)
         /\ entered[t] /\ entered[u]
         /\ Checked(t) /\ Checked(u)) =>
            (~alreadyPopulated[t] /\ ~alreadyPopulated[u])

\* C5 amended: the check and the marking are one hold of the lock, so of two
\* calls without the force flag in progress for the same package at most one
\* has found it unpopulated; the other has returned without any sub-fetch.
C5_NoDuplicateFetch ==
    \A t, u \in Threads :
        (/\ t # u /\ pkg[t] = pkg[u]
         /\ ~Forced(t) /\ ~Forced(u)
         /\ Checked(t) /\ Checked(u)) =>
            /\ alreadyPopulated[t] \/ alreadyPopulated[u]
            /\ alreadyPopulated[t] => (pc[t] = "returned" /\ done[t] = {})
            /\ alreadyPopulated[u] => (pc[u] = "returned" /\ done[u] = {})

C5_Witness ==
    \E t, u \in Threads :
        /\ t # u /\ pkg[t] = pkg[u]
        /\ ~Forced(t) /\ ~Forced(u)
        /\ entered[t] /\ entered[u]
        /\ pc[t] \in NetworkPcs
        /\ pc[u] = "returned" /\ alreadyPopulated[u]
        /\ Requested(flags[u]) # {}

\* C7: a thread that is inside a call into WebAppInterface does not hold the
\* model lock; the lock is held only inside the blocks guarded by a BAutolock.
C7_NoLockAcrossNetwork ==
    \A t \in Threads :
        /\ pc[t] \in NetworkPcs => fLock.owner # t
        /\ fLock.owner = t =>
                pc[t] \in {AfterLock[w] : w \in DOMAIN AfterLock}

C7_Witness ==
    \E t, u \in Threads :
        /\ t # u
        /\ pc[t] \in NetworkPcs
        /\ fLock.owner = u
        /\ pc[u] = "UR_unpack"

(***************************************************************************)
(* Claims about _SendJsonRequest (checked under SpecSend).                 *)
(***************************************************************************)
\* C8: the pre-flight tests are made in the order empty request, network
\* unavailable, client too old; the first one that fails decides the result
\* code (B_ERROR, HD_NETWORK_INACCESSIBLE, HD_CLIENT_TOO_OLD), no HTTP
\* request is run and the reply document is as it was.
C8_PreflightOrder ==
    rpc.called =>
        /\ rpc.requestDataSize = 0 => rpc.result = "B_ERROR"
        /\ (rpc.requestDataSize # 0 /\ ~rpc.networkAvailable) =>
                rpc.result = "HD_NETWORK_INACCESSIBLE"
        /\ (rpc.requestDataSize # 0 /\ rpc.networkAvailable
                /\ rpc.clientTooOld) =>
                rpc.result = "HD_CLIENT_TOO_OLD"
        /\ (rpc.requestDataSize = 0 \/ ~rpc.networkAvailable
                \/ rpc.clientTooOld) =>
                /\ ~rpc.ran
                /\ ~rpc.parsed
                /\ rpc.reply = rpc.document
        /\ (rpc.requestDataSize # 0 /\ rpc.networkAvailable
                /\ ~rpc.clientTooOld) => rpc.ran

C8_Witness ==
    /\ rpc.called
    /\ rpc.requestDataSize = 0 /\ ~rpc.networkAvailable /\ rpc.clientTooOld
    /\ rpc.result = "B_ERROR" /\ rpc.document # <<>>

\* C9: an exchange that ends with status 412 makes the call return
\* HD_CLIENT_TOO_OLD and notify the outdated client exactly once; no other
\* status and no pre-flight rejection notifies.
C9_NotifyOn412 ==
    rpc.called =>
        /\ (rpc.ran /\ rpc.statusCode = B_HTTP_STATUS_PRECONDITION_FAILED) =>
                (rpc.result = "HD_CLIENT_TOO_OLD" /\ rpc.notified = 1)
        /\ ~(rpc.ran /\ rpc.statusCode = B_HTTP_STATUS_PRECONDITION_FAILED) =>
                rpc.notified = 0

C9_Witness ==
    /\ rpc.called /\ rpc.ran
    /\ rpc.statusCode = B_HTTP_STATUS_PRECONDITION_FAILED
    /\ rpc.notified = 1

\* C10: the body is parsed into the reply exactly when the status is 200;
\* every other status gives a failure code (HD_CLIENT_TOO_OLD for 412,
\* B_ERROR otherwise) and leaves the reply as it was; with status 200 the
\* result is B_OK for a well-formed body and B_BAD_DATA for a malformed one.
C10_OnlyStatus200Parses ==
    (rpc.called /\ rpc.ran) =>
        /\ rpc.parsed <=> rpc.statusCode = B_HTTP_STATUS_OK
        /\ rpc.statusCode # B_HTTP_STATUS_OK =>
                /\ rpc.reply = rpc.document
                /\ rpc.result =
                    IF rpc.statusCode = B_HTTP_STATUS_PRECONDITION_FAILED
                    THEN "HD_CLIENT_TOO_OLD" ELSE "B_ERROR"
        /\ rpc.statusCode = B_HTTP_STATUS_OK =>
                /\ rpc.body \in {"result", "error"} =>
                        /\ rpc.result = "B_OK"
                        /\ rpc.reply = Append(rpc.document, rpc.body)
                /\ rpc.body = "malformed" => rpc.result = "B_BAD_DATA"

C10_Witness ==
    /\ rpc.called /\ rpc.ran
    /\ rpc.statusCode = B_HTTP_STATUS_OK
    /\ rpc.body = "malformed" /\ rpc.result = "B_BAD_DATA"


(***************************************************************************)
(* Claim about the lock (checked under SpecLock).                          *)
(***************************************************************************)
\* C6: whenever a thread running a Model operation reads or writes the depot
\* list, the index lists or the credentials, it holds the model lock, and so
\* no two threads are at the same member at the same time.
C6_LockGuardsState ==
    /\ \A t \in Threads : Accessing(t) # {} => fLock.owner = t
    /\ \A t, u \in Threads :
            t # u => Accessing(t) \cap Accessing(u) = {}

\* C11: a well-formed response holding an error envelope does not fail the
\* call: the result is B_OK and the envelope is in the reply, as for a result
\* envelope; the same call answered with the other kind of envelope would
\* have ended with the same result code.
C11_ErrorEnvelopeSucceeds ==
    rpc.called =>
        /\ (rpc.ran /\ rpc.statusCode = B_HTTP_STATUS_OK
                /\ rpc.body = "error") =>
                /\ rpc.result = "B_OK"
                /\ rpc.reply = Append(rpc.document, "error")
                /\ ErrorCodeFromResponse(rpc.reply) # 0
        /\ \A envelope \in {"result", "error"}, partial \in BOOLEAN :
                SendJsonRequest(RpcInputs(rpc), rpc.statusCode, envelope,
                                partial).result
                    = IF rpc.body = "malformed" THEN "B_OK" ELSE rpc.result

C11_Witness ==
    /\ rpc.called /\ rpc.ran
    /\ rpc.statusCode = B_HTTP_STATUS_OK
    /\ rpc.body = "error" /\ rpc.result = "B_OK"
    /\ rpc.document # <<>>
    /\ ErrorCodeFromResponse(rpc.reply) # 0

(***************************************************************************)
(* Claim about the request ids (checked under SpecIds).                    *)
(***************************************************************************)
\* C12: every envelope carries an id greater than the id of every envelope
\* built before it, so no two envelopes carry the same id, whichever
\* instances and threads built them.
C12_IdsIncrease ==
    \A i, j \in DOMAIN envelopes :
        i < j => envelopes[i].id < envelopes[j].id

(***************************************************************************)
(* Claims about the screenshot cache (checked under SpecShot).             *)
(***************************************************************************)
ShotFileExisted == shot.fileBefore # NoShotFile

ShotServedFromCache ==
    /\ ~shot.network
    /\ shot.bitmaps = Append(shot.bitmapsBefore, shot.fileBefore.content)
    /\ shot.file = shot.fileBefore

ShotNothingDone ==
    /\ shot.bitmaps = shot.bitmapsBefore
    /\ shot.file = shot.fileBefore

\* C13: RetrieveScreenshot is called only when the call is not cache-only and
\* there is no cache file or the file is not younger than one hour; a file
\* younger than one hour is served without a network call, cache-only serves
\* an existing file of any age, and cache-only without a file adds nothing
\* and calls nothing.
C13_CacheBeforeNetwork ==
    shot.called =>
        /\ shot.network <=>
                /\ ~shot.fromCacheOnly
                /\ \/ ~ShotFileExisted
                   \/ shot.fileBefore.age >= FreshnessWindow
        /\ (ShotFileExisted /\ shot.fileBefore.age < FreshnessWindow) =>
                ShotServedFromCache
        /\ (ShotFileExisted /\ shot.fromCacheOnly) => ShotServedFromCache
        /\ (~ShotFileExisted /\ shot.fromCacheOnly) =>
                (~shot.network /\ ShotNothingDone)

C13_Witness ==
    /\ shot.called /\ shot.fromCacheOnly
    /\ shot.fileBefore.age > FreshnessWindow
    /\ shot.fileBefore.content = "v2"
    /\ shot.bitmaps = <<"v1", "v2">>

ShotStale ==
    /\ shot.called /\ ~shot.fromCacheOnly
    /\ ShotFileExisted /\ shot.fileBefore.age > FreshnessWindow

\* C14 as stated: for a cache file older than one hour and network use
\* allowed, after the call the cache file holds the fetched bytes and the
\* package holds the fetched bitmap.
C14_StaleAlwaysReplaced ==
    ShotStale =>
        /\ shot.network
        /\ shot.fetched \in ShotContents
        /\ shot.file = [age |-> 0, content |-> shot.fetched]
        /\ shot.bitmaps = Append(shot.bitmapsBefore, shot.fetched)

\* C14 amended: for a cache file older than one hour and network use
\* allowed, RetrieveScreenshot is called; when it succeeds the package gets
\* the fetched bitmap, and the cache file is replaced by the fetched bytes
\* if it can be opened for writing and is left as it was otherwise; when it
\* fails, neither the file nor the package changes.
C14_StaleRefetched ==
    ShotStale =>
        /\ shot.network
        /\ shot.fetched \in ShotContents =>
                /\ shot.bitmaps = Append(shot.bitmapsBefore, shot.fetched)
                /\ shot.file = IF shot.writable
                               THEN [age |-> 0, content |-> shot.fetched]
                               ELSE shot.fileBefore
        /\ shot.fetched = "fail" => ShotNothingDone

C14_Witness ==
    /\ ShotStale
    /\ shot.fileBefore.content = "v1"
    /\ shot.fetched = "v2" /\ shot.writable
    /\ shot.file = [age |-> 0, content |-> "v2"]
    /\ shot.bitmaps = <<"v2">>

(***************************************************************************)
(* Claim about the search terms (checked under SpecSearch).                *)
(***************************************************************************)
\* The terms of a string: its longest runs of characters that are not
\* separators, in lower case.
TermsOf(string, separators) ==
    {ToLower(CopyInto(string, from - 1, to - from + 1)) :
        <<from, to>> \in
            {r \in (DOMAIN string) \X (DOMAIN string) :
                /\ r[1] <= r[2]
                /\ \A k \in r[1]..r[2] : string[k] \notin separators
                /\ r[1] = 1 \/ string[r[1] - 1] \in separators
                /\ r[2] = Len(string) \/ string[r[2] + 1] \in separators}}

\* term is a substring of text, whatever the case of the letters.
IsSubstringNoCase(term, text) ==
    \E o \in 0..Len(text) :
        /\ o + Len(term) <= Len(text)
        /\ \A k \in 1..Len(term) :
                LowerChar(text[o + k]) = LowerChar(term[k])

FieldsOf(package) ==
    {package.name, package.title, package.publisher,
     package.shortDescription, package.fullDescription}

AcceptedFor(separators) ==
    /\ accepted.package # NullPackage
    /\ \A term \in TermsOf(searchString, separators) :
            \E text \in FieldsOf(accepted.package) :
                IsSubstringNoCase(term, text)

\* C16 as stated: the filter accepts a package exactly when every term of
\* the search string, the terms being separated by white space (space or
\* tabulator), is a substring of one of the five texts, whatever the case.
C16_WhitespaceTerms ==
    accepted.called => (accepted.result <=> AcceptedFor({" ", "TAB"}))

\* C16 amended: as stated, but the terms are separated by the space
\* character only; any other white space is part of a term.
C16_SpaceTerms ==
    accepted.called => (accepted.result <=> AcceptedFor({" "}))

C16_Witness ==
    /\ accepted.called /\ accepted.result
    /\ searchString = <<"B", " ", "a">>
    /\ accepted.package # NullPackage
    /\ accepted.package.name = <<"A">>
    /\ accepted.package.fullDescription = <<"b", "a">>
    /\ accepted.package.title = <<>>

(***************************************************************************)
(* C15.  Model::CreatePackageList returns exactly the packages of the      *)
(* depots (all of them, or those named by the depot restriction when it is *)
(* not empty) that satisfy the conjunction of the three filters and the    *)
(* four show-flags, in depot order then package order, and the call        *)
(* changes nothing of the Model and does no I/O.                           *)
(***************************************************************************)
\* The last Len(suffix) characters of name are suffix.
NameEndsIn(name, suffix) ==
    /\ Len(name) >= Len(suffix)
    /\ SubSeq(name, Len(name) - Len(suffix) + 1, Len(name)) = suffix

\* The conjunction of the claim.
Satisfies(package) ==
    /\ AcceptsPackage(fCategoryFilter, package)
    /\ AcceptsPackage(fSearchTermsFilter, package)
    /\ AcceptsPackage(fIsFeaturedFilter, package)
    /\ fShowAvailablePackages \/ package.state # "NONE"
    /\ fShowInstalledPackages \/ package.state # "ACTIVATED"
    /\ fShowSourcePackages \/ ~NameEndsIn(package.name, Suffix_source)
    /\ \/ fShowDevelopPackages
       \/ /\ ~NameEndsIn(package.name, Suffix_devel)
          /\ ~NameEndsIn(package.name, Suffix_debuginfo)

\* Depot i is not excluded by the depot restriction.
DepotListed(i) == fDepotFilter = "" \/ fDepots[i].name = fDepotFilter

\* The places <<depot, package>> of the packages to be listed.
Places ==
    UNION {{<<i, j>> : j \in DOMAIN fDepots[i].packages} :
                i \in DOMAIN fDepots}

ListedPlaces ==
    {place \in Places :
        /\ DepotListed(place[1])
        /\ Satisfies(fDepots[place[1]].packages[place[2]])}

\* The position of a place in depot order then package order.
PlaceRank(place) ==
    Cardinality({other \in ListedPlaces :
        \/ other[1] < place[1]
        \/ other[1] = place[1] /\ other[2] <= place[2]})

IsExpectedList(resultList) ==
    /\ Len(resultList) = Cardinality(ListedPlaces)
    /\ \A place \in ListedPlaces :
            resultList[PlaceRank(place)] =
                fDepots[place[1]].packages[place[2]]

CreatePackageListStep == listing'.called /\ listing' # listing

C15_ListIsFilteredInOrder ==
    [][CreatePackageListStep =>
        /\ IsExpectedList(listing'.resultList)
        /\ \A package \in FilteredPackages :
                MatchesFilter(package) = Satisfies(package)
        /\ UNCHANGED <<indexVars, dataVars, threadVars, lockVars, callVars,
                       depotVars, parseVars, fCategoryFilter, fDepotFilter,
                       fSearchTermsFilter, fIsFeaturedFilter,
                       fShowFeaturedPackages, fShowAvailablePackages,
                       fShowInstalledPackages, fShowSourcePackages,
                       fShowDevelopPackages>>]_vars

\* Two depots, one of them excluded by the restriction, a package of the
\* other one filtered out and one listed.
C15_Witness ==
    /\ listing.called
    /\ Len(fDepots) = 2
    /\ \E i \in DOMAIN fDepots : ~DepotListed(i) /\ fDepots[i].packages # <<>>
    /\ \E i \in DOMAIN fDepots :
            /\ DepotListed(i)
            /\ \E j \in DOMAIN fDepots[i].packages :
                    ~Satisfies(fDepots[i].packages[j])
    /\ Len(listing.resultList) >= 1
    /\ IsExpectedList(listing.resultList)

(***************************************************************************)
(* C17.  The category, search-terms and featured filters are set           *)
(* independently.                                                          *)
(***************************************************************************)
\* Two filters accept the same packages.
SameAcceptance(filter, other) ==
    \A package \in FilteredPackages \cup {NullPackage} :
        AcceptsPackage(filter, package) = AcceptsPackage(other, package)

\* The filter keeps packages that are not prominent out of the list.
ExcludesNonProminent(filter) ==
    \E package \in FilteredPackages :
        ~package.prominent /\ ~AcceptsPackage(filter, package)

\* The filter holds no term: no package is kept out by it.
AcceptsEveryPackage(filter) ==
    \A package \in FilteredPackages : AcceptsPackage(filter, package)

SetCategoryStep == fCategoryFilter' # fCategoryFilter

SetSearchTermsStep == fSearchTermsFilter' # fSearchTermsFilter

SetShowFeaturedPackagesStep == fShowFeaturedPackages' # fShowFeaturedPackages

\* C17 as stated: a step of one of the three setters leaves the acceptance
\* of the other two filters as it was.
C17_FiltersIndependent ==
    [][/\ SetCategoryStep =>
            /\ SameAcceptance(fSearchTermsFilter', fSearchTermsFilter)
            /\ SameAcceptance(fIsFeaturedFilter', fIsFeaturedFilter)
       /\ SetSearchTermsStep =>
            /\ SameAcceptance(fCategoryFilter', fCategoryFilter)
            /\ SameAcceptance(fIsFeaturedFilter', fIsFeaturedFilter)
       /\ SetShowFeaturedPackagesStep =>
            /\ SameAcceptance(fCategoryFilter', fCategoryFilter)
            /\ SameAcceptance(fSearchTermsFilter', fSearchTermsFilter)]_vars

\* C17 amended: SetCategory and SetShowFeaturedPackages leave the other two
\* filters alone and SetSearchTerms leaves the category filter alone, but
\* after SetSearchTerms the featured filter excludes the packages that are
\* not prominent exactly when show-featured is on and the new search string
\* holds no term.
C17_SearchTermsSwitchFeatured ==
    [][/\ SetCategoryStep =>
            /\ SameAcceptance(fSearchTermsFilter', fSearchTermsFilter)
            /\ SameAcceptance(fIsFeaturedFilter', fIsFeaturedFilter)
       /\ SetShowFeaturedPackagesStep =>
            /\ SameAcceptance(fCategoryFilter', fCategoryFilter)
            /\ SameAcceptance(fSearchTermsFilter', fSearchTermsFilter)
       /\ SetSearchTermsStep =>
            /\ SameAcceptance(fCategoryFilter', fCategoryFilter)
            /\ UNCHANGED fShowFeaturedPackages
            /\ ExcludesNonProminent(fIsFeaturedFilter') =
                    /\ fShowFeaturedPackages
                    /\ AcceptsEveryPackage(fSearchTermsFilter')]_vars

\* Show-featured is on, search terms have been set, and the packages that
\* are not prominent are listed.
C17_Witness ==
    /\ fShowFeaturedPackages
    /\ fSearchTermsFilter.kind = "SearchTermsFilter"
    /\ fSearchTermsFilter.fSearchTerms # <<>>
    /\ ~ExcludesNonProminent(fIsFeaturedFilter)
    /\ listing.called
    /\ \E k \in DOMAIN listing.resultList : ~listing.resultList[k].prominent

(***************************************************************************)
(* C18.  No two depots of the Model's depot list have the same name, in    *)
(* every state reached by AddDepot, SyncDepot, ReplaceDepotByUrl and Clear *)
(* calls.                                                                  *)
(***************************************************************************)
C18_DepotNamesUnique ==
    \A i, j \in DOMAIN fDepots : fDepots[i].name = fDepots[j].name => i = j

(***************************************************************************)
(* C19.  Model::SyncDepot with a depot whose name no depot of the Model    *)
(* has returns false and changes nothing; with a depot whose name matches  *)
(* it returns true and replaces one entry of that name by the existing     *)
(* depot with the incoming packages merged into its packages, every other  *)
(* entry, the number and the order of the depots staying as they were.     *)
(***************************************************************************)
Elements(list) == {list[k] : k \in DOMAIN list}

\* merged is existing followed by the incoming packages it did not hold.
IsMerge(merged, existing, incoming) ==
    /\ Elements(merged) = Elements(existing) \cup Elements(incoming)
    /\ Len(merged) >= Len(existing)
    /\ SubSeq(merged, 1, Len(existing)) = existing
    /\ Len(merged) =
            Len(existing) + Cardinality(Elements(incoming) \ Elements(existing))

SyncDepotStep == depotCall'.name = "SyncDepot" /\ vars' # vars

NameMatches(depot) == {i \in DOMAIN fDepots : fDepots[i].name = depot.name}

C19_SyncReplacesOneDepot ==
    [][SyncDepotStep =>
        LET depot == depotCall'.depot
        IN  /\ UNCHANGED <<indexVars, dataVars>>
            /\ Len(fDepots') = Len(fDepots)
            /\ NameMatches(depot) = {} =>
                    ~depotCall'.result /\ fDepots' = fDepots
            /\ NameMatches(depot) # {} =>
                    /\ depotCall'.result
                    /\ \E i \in NameMatches(depot) :
                        /\ fDepots'[i].name = fDepots[i].name
                        /\ fDepots'[i].url = fDepots[i].url
                        /\ fDepots'[i].code = fDepots[i].code
                        /\ IsMerge(fDepots'[i].packages, fDepots[i].packages,
                                   depot.packages)
                        /\ \A j \in DOMAIN fDepots :
                                j # i => fDepots'[j] = fDepots[j]]_vars

\* A successful sync into the second of two depots that added a package to
\* the ones the depot held.
C19_Witness ==
    /\ depotCall.name = "SyncDepot"
    /\ depotCall.result
    /\ Len(fDepots) = MaxDepots
    /\ fDepots[1].name # depotCall.depot.name
    /\ fDepots[2].name = depotCall.depot.name
    /\ fDepots[2].packages = <<1, 2>>
    /\ depotCall.depot.packages = <<2, 1>>

(***************************************************************************)
(* C20.  The sub-fetches of Model::PopulatePackage are independent: each   *)
(* requested one is attempted exactly once per call, a failing one does    *)
(* not keep the later ones from being attempted and applied, and the call  *)
(* returns.                                                                *)
(***************************************************************************)
\* The sub-fetches a call with these flags asks for, in the order of the
\* code: the changelog, the user ratings, every screenshot of the package.
RECURSIVE ShotFetches(_)
ShotFetches(count) ==
    IF count = 0 THEN <<>>
    ELSE Append(ShotFetches(count - 1), <<"screenshot", count>>)

RequestedFetches(fl) ==
    (IF "POPULATE_CHANGELOG" \in fl THEN << <<"changelog", 0>> >> ELSE <<>>)
    \o (IF "POPULATE_USER_RATINGS" \in fl THEN << <<"ratings", 0>> >>
        ELSE <<>>)
    \o (IF "POPULATE_SCREEN_SHOTS" \in fl THEN ShotFetches(NumGalleryShots)
        ELSE <<>>)

FetchesOf(log) == [k \in DOMAIN log |-> log[k].fetch]

\* The positions of the log whose fetch came back with data.
Fetched(log) == {k \in DOMAIN log : log[k].outcome = "ok"}

\* The screenshots of the log that came back with a bitmap, in log order.
RECURSIVE BitmapsOf(_, _)
BitmapsOf(log, k) ==
    IF k = 0 THEN <<>>
    ELSE IF log[k].fetch[1] = "screenshot" /\ log[k].outcome = "ok"
    THEN Append(BitmapsOf(log, k - 1), log[k].fetch[2])
    ELSE BitmapsOf(log, k - 1)

\* What came back with data is in the package.
Applied(log) ==
    /\ \A k \in Fetched(log) :
        /\ log[k].fetch[1] = "changelog" => changelog[GalleryPackage] = "log"
        /\ log[k].fetch[1] = "ratings" => userRatings[GalleryPackage] # <<>>
    /\ (\E k \in DOMAIN log : log[k].fetch[1] = "screenshot") =>
            screenshots[GalleryPackage] = BitmapsOf(log, Len(log))

CallReturned == pc[Caller] = "returned" /\ pkg[Caller] = GalleryPackage

CallInProgress == pc[Caller] \notin {"idle", "returned"}

\* C20 as stated: every call attempts each requested sub-fetch once.
C20_EveryCallFetchesAll ==
    CallReturned =>
        /\ FetchesOf(fetchLog) = RequestedFetches(flags[Caller])
        /\ \A k \in DOMAIN fetchLog : fetchLog[k].outcome # "pending"
        /\ Applied(fetchLog)

\* C20 amended: a call that finds the package populated and is not forced
\* returns without a fetch; every other call attempts each requested
\* sub-fetch once and in order whatever the earlier ones ended with, what
\* came back with data is applied, and a call that has begun returns.
C20_FetchesIndependent ==
    /\ [](CallReturned =>
            IF SkipsWork(flags[Caller], alreadyPopulated[Caller])
            THEN fetchLog = <<>>
            ELSE /\ FetchesOf(fetchLog) = RequestedFetches(flags[Caller])
                 /\ \A k \in DOMAIN fetchLog : fetchLog[k].outcome # "pending"
                 /\ Applied(fetchLog))
    /\ (CallInProgress ~> CallReturned)

\* A call has returned whose changelog fetch, user ratings fetch and first
\* screenshot failed, and whose second screenshot is in the package.
C20_Witness ==
    /\ CallReturned
    /\ Len(fetchLog) = 2 + NumGalleryShots
    /\ \A k \in 1..3 : fetchLog[k].outcome = "failed"
    /\ fetchLog[Len(fetchLog)].outcome = "ok"
    /\ screenshots[GalleryPackage] = <<NumGalleryShots>>

(***************************************************************************)
(* C30.  The buffer requestData of every _SendJsonRequest call is, when    *)
(* the call returns, either adopted by the HTTP request or deleted: for    *)
(* the empty-body, network-unavailable and client-too-old rejections and   *)
(* for the request that is sent.                                           *)
(***************************************************************************)
C30_BufferDischarged ==
    rpc.called => rpc.buffer \in {"adopted", "deleted"}

(***************************************************************************)
(* C22.  A request carries HTTP Basic authentication exactly when it is    *)
(* flagged as requiring authorization and the credentials in effect for it *)
(* are valid; it then carries those credentials.  The credentials in       *)
(* effect are the stored ones, except for RetrieveUserDetailForCredentials *)
(* where they are the ones passed as argument.                             *)
(***************************************************************************)
\* Nickname and password are both non-empty.
BothGiven(credentials) == credentials[1] # "" /\ credentials[2] # ""

\* The credentials in effect for the call recorded in r.
InEffect(r) ==
    IF r.caller = "RetrieveUserDetailForCredentials" THEN r.credentials
    ELSE r.stored

C22_BasicAuthIffFlaggedAndValid ==
    (rpc.called /\ rpc.ran) =>
        /\ rpc.authentication # <<>> <=>
                (rpc.needsAuthorization /\ BothGiven(InEffect(rpc)))
        /\ rpc.authentication # <<>> => rpc.authentication = InEffect(rpc)
        /\ rpc.caller = "RetrieveUserDetailForCredentials" =>
                rpc.needsAuthorization

\* RetrieveUserDetailForCredentials has sent a request with the argument's
\* credentials while other valid credentials were stored.
C22_Witness ==
    /\ rpc.called /\ rpc.ran
    /\ rpc.caller = "RetrieveUserDetailForCredentials"
    /\ BothGiven(rpc.stored)
    /\ rpc.stored # rpc.credentials
    /\ rpc.authentication = rpc.credentials
    /\ rpc.authentication[1] = "other"

(***************************************************************************)
(* C25.  The populated-set holds packages, not kinds of data, and only     *)
(* grows: a call that passes the populated check leaves the package in the *)
(* set whatever its flags and its fetches, a later call without the force  *)
(* flag fetches nothing, no operation (Model::Clear included) removes a    *)
(* package from the set, and no package is in it twice.                    *)
(***************************************************************************)
NoDuplicates(list) ==
    \A i, j \in DOMAIN list : list[i] = list[j] => i = j

\* The caller executes Model.cpp:612-616.
PopulatedCheckStep == pc[Caller] = "P_check" /\ pc'[Caller] # "P_check"

C25_States ==
    /\ NoDuplicates(fPopulatedPackages)
    /\ (pc[Caller] = "returned" /\ alreadyPopulated[Caller]
            /\ ~Forced(Caller)) => done[Caller] = {}

C25_Steps ==
    /\ Len(fPopulatedPackages') >= Len(fPopulatedPackages)
    /\ SubSeq(fPopulatedPackages', 1, Len(fPopulatedPackages))
            = fPopulatedPackages
    /\ PopulatedCheckStep =>
            /\ Contains(fPopulatedPackages', pkg[Caller])
            /\ alreadyPopulated'[Caller]
                    = Contains(fPopulatedPackages, pkg[Caller])
            /\ (Contains(fPopulatedPackages, pkg[Caller]) /\ ~Forced(Caller))
                    => (pc'[Caller] = "returned" /\ done'[Caller] = {})

C25_PopulatedSetOnlyGrows == []C25_States /\ [][C25_Steps]_vars

\* The package is in the populated-set without a changelog or a rating ever
\* fetched, its depot has been cleared away, and a call without the force
\* flag asking for all three kinds of data has returned without a fetch.
C25_Witness ==
    /\ pc[Caller] = "returned"
    /\ flags[Caller] = PopulateFlags \ {"POPULATE_FORCE"}
    /\ done[Caller] = {}
    /\ fPopulatedPackages = <<GalleryPackage>>
    /\ changelog[GalleryPackage] = ""
    /\ userRatings[GalleryPackage] = <<>>
    /\ depotCall.name = "Clear"
    /\ fDepots = <<>>

(***************************************************************************)
(* C26.  When no PopulatePackage call is in progress, a package holds at   *)
(* most one bitmap for each of its screenshots, whatever the interleaving  *)
(* of the calls that populated it.                                         *)
(***************************************************************************)
NoCallInProgress == \A t \in Threads : pc[t] \in {"idle", "returned"}

C26_OneBitmapPerScreenshot ==
    NoCallInProgress =>
        \A package \in PopPackages :
            /\ NoDuplicates(screenshots[package])
            /\ Len(screenshots[package]) <= ShotCount(package)

(***************************************************************************)
(* C27.  The user ratings of a package are replaced as a unit: the list is *)
(* the initial one or the complete unpack of one ratings response, it      *)
(* changes only in the one lock hold that clears and refills it, and a     *)
(* ratings fetch that fails or brings no items leaves it as it was.        *)
(***************************************************************************)
CompleteUnpacks == {RatingsOf(r) : r \in {"A", "B"}}

C27_States ==
    \A package \in PopPackages :
        userRatings[package] \in {<<>>} \cup CompleteUnpacks

C27_Steps ==
    \A package \in PopPackages :
        userRatings'[package] # userRatings[package] =>
            \E t \in Threads :
                /\ pc[t] = "UR_unpack"
                /\ fLock.owner = t
                /\ pkg[t] = package
                /\ reply[t] \in {"A", "B"}
                /\ userRatings'[package] = RatingsOf(reply[t])

C27_RatingsReplacedAsUnit == []C27_States /\ [][C27_Steps]_vars

\* A thread is unpacking one response into a package that holds the ratings
\* of another, while a second thread waits for the lock with a response of
\* its own.
C27_Witness ==
    \E t, u \in Threads :
        /\ t # u /\ pkg[t] = pkg[u]
        /\ pc[t] = "UR_unpack" /\ reply[t] = "B"
        /\ pc[u] = "UR_lock2" /\ reply[u] = "A"
        /\ userRatings[pkg[t]] = RatingsOf("A")

(***************************************************************************)
(* C28.  The featured restriction is active exactly when show-featured is  *)
(* true and the search terms, normalised, are empty; a search string of    *)
(* spaces only counts as empty; with search terms set, the prominence of a *)
(* package has no effect on Model::MatchesFilter.                          *)
(***************************************************************************)
\* The search filter in force holds at least one term.
HasSearchTerms ==
    /\ fSearchTermsFilter.kind = "SearchTermsFilter"
    /\ fSearchTermsFilter.fSearchTerms # <<>>

\* The filter SetSearchTerms leaves for a string of spaces.
SpacesOnlyFilter == [kind |-> "SearchTermsFilter", fSearchTerms |-> <<>>]

C28_FeaturedIffNoSearch ==
    /\ ExcludesNonProminent(fIsFeaturedFilter) =
            (fShowFeaturedPackages /\ ~HasSearchTerms)
    /\ HasSearchTerms =>
            \A package \in FilteredPackages :
                MatchesFilter(package) =
                    MatchesFilter([package EXCEPT !.prominent = ~@])

\* Show-featured is on, the search terms were set to spaces only, and a
\* package that is not prominent is kept out of the list made.
C28_Witness ==
    /\ fShowFeaturedPackages
    /\ fSearchTermsFilter = SpacesOnlyFilter
    /\ ExcludesNonProminent(fIsFeaturedFilter)
    /\ listing.called
    /\ \E i \in DOMAIN fDepots :
            \E j \in DOMAIN fDepots[i].packages :
                /\ ~fDepots[i].packages[j].prominent
                /\ \A k \in DOMAIN listing.resultList :
                        listing.resultList[k] # fDepots[i].packages[j]

(***************************************************************************)
(* C29.  Model::Clear removes all depots and changes nothing else: index   *)
(* lists, populated-set, filters, show-flags and credentials stay, so      *)
(* indexed and populated packages may belong to no depot, while every      *)
(* package of the display list is in some depot.                           *)
(***************************************************************************)
\* A step that is a call of Clear: depotCall names the last call made on the
\* depots, and a Clear that follows a Clear is no step.
ClearStep == depotCall'.name = "Clear" /\ depotCall.name # "Clear"

InSomeDepot(package) ==
    \E i \in DOMAIN fDepots :
        \E j \in DOMAIN fDepots[i].packages :
            fDepots[i].packages[j] = package

C29_ListedInDepot ==
    listing.called =>
        \A k \in DOMAIN listing.resultList :
            InSomeDepot(listing.resultList[k])

C29_ClearFrame ==
    ClearStep =>
        /\ fDepots' = <<>>
        /\ UNCHANGED <<fInstalledPackages, fActivatedPackages,
                       fUninstalledPackages, pkgState, fPopulatedPackages,
                       fCategoryFilter, fDepotFilter, fSearchTermsFilter,
                       fIsFeaturedFilter, fShowFeaturedPackages,
                       fShowAvailablePackages, fShowInstalledPackages,
                       fShowSourcePackages, fShowDevelopPackages,
                       fCredentials>>

C29_ClearOnlyDepots == []C29_ListedInDepot /\ [][C29_ClearFrame]_vars

\* The depots have been cleared; the package is still in an index list and
\* in the populated-set, credentials and the featured flag are as set
\* before, and the display list is empty.
C29_Witness ==
    /\ depotCall.name = "Clear"
    /\ fDepots = <<>>
    /\ Contains(fActivatedPackages, GalleryPackage)
    /\ Contains(fPopulatedPackages, GalleryPackage)
    /\ fCredentials = <<"other", "secret">>
    /\ ~fShowFeaturedPackages
    /\ listing.called
    /\ listing.resultList = <<>>

(***************************************************************************)
(* C23.  Every filter except the accept-all one answers false for a        *)
(* reference that holds no package, without faulting, and MatchesFilter    *)
(* on such a reference does not fault.                                     *)
(***************************************************************************)
CalledOnNull == accepted.called /\ accepted.package = NullPackage

C23_NullRejectedWithoutFault ==
    CalledOnNull =>
        /\ accepted.result # "fault"
        /\ (accepted.method = "AcceptsPackage"
                /\ accepted.filter # AnyFilter) => accepted.result = "false"

(***************************************************************************)
(* C21.  The items "0", "1", ... of a user-ratings response are looked at  *)
(* in order up to the first missing name; an item is skipped when it has   *)
(* no code, or has neither comment nor rating, and every other item is     *)
(* added; a skipped item does not end the loop, and the items after it     *)
(* are added in the order of their indexes.                                *)
(***************************************************************************)
\* The number of items looked at: the names up to the first missing one.
RECURSIVE CountItems(_, _)
CountItems(items, index) ==
    IF index < MaxItems /\ Has(items, IndexName(index))
    THEN CountItems(items, index + 1) ELSE index

\* The ratings of the items 0 .. count - 1 that are not to be skipped, in
\* the order of their indexes.
AddedInOrder(items, ratings, Skip(_)) ==
    LET count == CountItems(items, 0)
        kept == {index \in 0..(count - 1) : ~Skip(items[IndexName(index)])}
    IN  /\ Len(ratings) = Cardinality(kept)
        /\ \E place \in [kept -> DOMAIN ratings] :
            /\ \A i, j \in kept : i < j => place[i] < place[j]
            /\ \A i \in kept :
                    ratings[place[i]] = UserRating(items[IndexName(i)])

\* As the sentence has it.
SkippedAsStated(item) ==
    \/ ~Has(item, "code")
    \/ ~Has(item, "comment") /\ ~Has(item, "rating")

\* As the loop has it: also without a user nickname, and with an empty
\* comment or a rating of -1 counting as none.
SkippedByLoop(item) ==
    \/ ~Has(item, "code")
    \/ ~(Has(item, "user") /\ Has(item.user, "nickname"))
    \/ /\ Has(item, "comment") => item.comment = ""
       /\ Has(item, "rating") => item.rating = -1

C21_OthersAllAdded ==
    unpacked.called =>
        AddedInOrder(unpacked.items, unpacked.ratings, SkippedAsStated)

\* C21 as amended: the items skipped are those without code, without user
\* nickname, or with neither a non-empty comment nor a rating other than
\* -1; every other item up to the first missing name is added, in order.
C21_WellFormedAddedInOrder ==
    unpacked.called =>
        AddedInOrder(unpacked.items, unpacked.ratings, SkippedByLoop)

\* Three items: the first has no code, the second is added, the third has
\* no user nickname.
C21_Witness ==
    /\ unpacked.called
    /\ CountItems(unpacked.items, 0) = 3
    /\ ~Has(unpacked.items["0"], "code")
    /\ ~Has(unpacked.items["2"], "user")
    /\ unpacked.ratings = <<UserRating(unpacked.items["1"])>>

(***************************************************************************)
(* C24.  For every package name the body GetChangelog sends is a JSON      *)
(* object that reads back as jsonrpc "2.0", an integer id, method          *)
(* "getPkgChangelog" and a params array of one object whose pkgName is     *)
(* the name.                                                               *)
(***************************************************************************)
\* The object has exactly one member of the name, and its value is as given.
MemberIs(object, name, Is(_)) ==
    /\ object.type = "object"
    /\ Cardinality({k \in DOMAIN object.members :
                        object.members[k].name = name}) = 1
    /\ \A k \in DOMAIN object.members :
            object.members[k].name = name => Is(object.members[k].value)

IsString(value, chars) == value = [type |-> "string", chars |-> chars]

RoundTrips(body, packageName) ==
    LET parsed == ParseJson(body)
        IsVersion(value) == IsString(value, Version_2_0)
        IsInteger(value) == value.type = "number"
        IsMethod(value) == IsString(value, Method_getPkgChangelog)
        IsName(value) == IsString(value, packageName)
        IsParams(value) ==
            /\ value.type = "array"
            /\ Len(value.items) = 1
            /\ MemberIs(value.items[1], Name_pkgName, IsName)
            /\ Len(value.items[1].members) = 1
    IN  /\ parsed.ok
        /\ MemberIs(parsed.value, Name_jsonrpc, IsVersion)
        /\ MemberIs(parsed.value, Name_id, IsInteger)
        /\ MemberIs(parsed.value, Name_method, IsMethod)
        /\ MemberIs(parsed.value, Name_params, IsParams)

C24_EnvelopeRoundTrips ==
    sent.called => RoundTrips(sent.body, sent.packageName)

=============================================================================
